---- MODULE Spec2Model ----
(***************************************************************************)
(* Model of the command-execution core of immaterium: the Block state      *)
(* machine (core/block.rs), the BlockManager (core/manager.rs), the PTY    *)
(* executor (shell/executor.rs), the session store                         *)
(* (core/session_manager.rs) and the event loop of the                     *)
(* application that drives them (ui/app.rs).                               *)
(*                                                                         *)
(* The specifications of the module:                                       *)
(*   SpecBlock    one Block driven by arbitrary calls of its methods       *)
(*   SpecExec     one ShellExecutor::execute call and its worker           *)
(*   SpecStore    a block sequence saved to and loaded from the store      *)
(*   SpecDb       the SessionManager under arbitrary calls                 *)
(*   SpecManager  the BlockManager under arbitrary calls                   *)
(*   Spec         the application in one session within one auto-save      *)
(*                interval: frames, generated commands, relays, workers    *)
(*   FairSpec     Spec with the update loop, tasks and threads scheduled   *)
(*   SpecSession  the application over auto-save rounds and sessions       *)
(*   SpecLoad     rows written by save_block, then changed outside the     *)
(*                application, read back by load_session                   *)
(*   SpecProcess  a ProcessHandle under arbitrary calls, next to one       *)
(*                execution                                                *)
(*   SpecPending  the application with a generated command waiting for     *)
(*                approval, over auto-save rounds and sessions             *)
(*   SpecEvents   one manager under execution events, selection, collapse  *)
(*                and deletion                                             *)
(*   SpecRemoval  SpecSession where the deletion of the running block is   *)
(*                remembered                                               *)
(*   SpecActive   two concurrent callers of set_active_session             *)
(*   SpecRounds   the application with two auto-save rounds in flight      *)
(*   SpecCancel   one ProcessHandle under concurrent cancel and set_status *)
(***************************************************************************)
EXTENDS Integers, Sequences, FiniteSets, TLC

VARIABLES
    blk,        \* SpecBlock: the Block under test
    lastOp,     \* history: the last operation called and the block before it
    now,        \* wall clock read by Utc::now(), in units of 1/SubMs millisecond
    wk,         \* per execution: the state of the spawn_blocking worker
    ch1,        \* per execution: the executor's unbounded channel (tx -> rx)
    sent1,      \* per execution: history, every event the worker handed to the channel
    app,        \* ImmateriumApp: block manager, session, running-command marker, save flags
    relay,      \* per execution: the task spawned by execute_shell_command
    ch2,        \* per execution: the output channel (output_tx -> output_receiver)
    db,         \* the durable store: sessions and blocks tables
    saves,      \* auto-save tasks in flight
    ai          \* the command-generation task and the channel behind ai_receiver

(***************************************************************************)
(* Bounds of the model                                                     *)
(***************************************************************************)
MaxClock == 2
MaxOut == 2
SubMs == 2

\* Option<T>
None == <<>>
Some(x) == <<x>>
IsSome(o) == o # None
Unwrap(o) == o[1]

\* std::cmp helpers
Min(a, b) == IF a <= b THEN a ELSE b

RECURSIVE Flatten(_)
\* concatenation of a sequence of strings (each a sequence of text pieces, see Pc)
Flatten(ss) == IF ss = <<>> THEN <<>> ELSE Head(ss) \o Flatten(Tail(ss))

IsPrefix(s, t) == Len(s) <= Len(t) /\ SubSeq(t, 1, Len(s)) = s

(***************************************************************************)
(* Text.  A String / Vec<u8> is a sequence of pieces <<kind, n>>: n bytes  *)
(* of one kind.  "nl" is the byte \n, "bad" a byte that is not valid       *)
(* UTF-8, every other kind an ordinary character.                          *)
(***************************************************************************)
Pc(k, n) == <<k, n>>
NL == Pc("nl", 1)
Texts == { <<Pc("a", 1)>>, <<Pc("b", 1), NL>> }
Commands == {"ls", "false"}
NlInputs == {"list files"}

(***************************************************************************)
(* core/block.rs                                                           *)
(***************************************************************************)
BlockStates == {"Editing", "PendingApproval", "Running", "Completed", "Failed", "Cancelled"}
TerminalStates == {"Completed", "Failed", "Cancelled"}

\* i32 exit codes the model draws from
I32Min == -2147483647 - 1
I32Max == 2147483647
ExitCodes == {I32Min, -1, 0, 1, I32Max}

\* Block::new
BlockNew(id, command, t) ==
    [ id |-> id, timestamp |-> t, command |-> command, output |-> <<>>,
      exit_code |-> None, state |-> "Editing",
      duration |-> None, started_at |-> None, completed_at |-> None,
      is_collapsed |-> FALSE, is_selected |-> FALSE, original_input |-> None ]

\* Block::new_pending_approval (called at ui/app.rs:695; its body is not in src/)
BlockNewPendingApproval(id, nl, command, t) ==
    [ BlockNew(id, command, t) EXCEPT !.state = "PendingApproval",
                                     !.original_input = Some(nl) ]

\* Block::start_execution
start_execution(b, t) ==
    [ b EXCEPT !.state = "Running", !.started_at = Some(t) ]

\* a complete_execution that tests the sign of the code instead of comparing with 0
StateOfExit_SignTest(exit_code) == IF exit_code > 0 THEN "Failed" ELSE "Completed"

\* the success/failure policy of Block::complete_execution
StateOfExit(exit_code) == IF exit_code = 0 THEN "Completed" ELSE "Failed"

\* (end - start).to_std(): Ok only for a non-negative difference
ToStd(d) == IF d >= 0 THEN Some(d) ELSE None

\* Block::complete_execution
complete_execution(b, exit_code, t) ==
    LET b1 == [ b EXCEPT !.exit_code = Some(exit_code),
                         !.completed_at = Some(t),
                         !.state = StateOfExit(exit_code) ]
    IN  IF IsSome(b1.started_at) /\ IsSome(ToStd(t - Unwrap(b1.started_at)))
        THEN [ b1 EXCEPT !.duration = ToStd(t - Unwrap(b1.started_at)) ]
        ELSE b1

\* an append_output that replaces the buffer instead of extending it
append_output_Overwrite(b, text) == [b EXCEPT !.output = text]

\* Block::append_output
append_output(b, text) == [ b EXCEPT !.output = @ \o text ]

\* Block::cancel (described in spec.md 4.1; no such method is in src/)
cancel(b) == IF b.state = "Running" THEN [ b EXCEPT !.state = "Cancelled" ] ELSE b

\* Block::is_running
is_running(b) == b.state = "Running"

\* Block::is_completed
is_completed(b) == b.state \in TerminalStates

(***************************************************************************)
(* core/session_manager.rs: how one block is written to and read from a    *)
(* row of the blocks table                                                 *)
(***************************************************************************)
\* format!("{:?}", block.state)
StateString(state) == state

\* the match on state_str in load_blocks
ParseState(s) ==
    CASE s = "Editing" -> "Editing"
      [] s = "Running" -> "Running"
      [] s = "Completed" -> "Completed"
      [] s = "Failed" -> "Failed"
      [] s = "Cancelled" -> "Cancelled"
      [] OTHER -> "Completed"

\* d.as_millis() as i64
AsMillis(d) == d \div SubMs

\* Duration::from_millis(ms as u64)
FromMillis(ms) == ms * SubMs

\* the values save_block binds for one block
BlockRow(session_id, b, order) ==
    [ id |-> b.id, session_id |-> session_id, timestamp |-> b.timestamp,
      command |-> b.command, output |-> b.output, exit_code |-> b.exit_code,
      state |-> StateString(b.state),
      started_at |-> b.started_at, completed_at |-> b.completed_at,
      duration_ms |-> IF IsSome(b.duration) THEN Some(AsMillis(Unwrap(b.duration))) ELSE None,
      is_collapsed |-> b.is_collapsed, block_order |-> order ]

\* the Block load_blocks builds from one row
RowBlock(r) ==
    [ id |-> r.id, timestamp |-> r.timestamp, command |-> r.command,
      output |-> r.output, exit_code |-> r.exit_code,
      state |-> ParseState(r.state),
      duration |-> IF IsSome(r.duration_ms) THEN Some(FromMillis(Unwrap(r.duration_ms))) ELSE None,
      started_at |-> r.started_at, completed_at |-> r.completed_at,
      is_collapsed |-> r.is_collapsed, is_selected |-> FALSE, original_input |-> None ]

(***************************************************************************)
(* SpecBlock: one Block, any sequence of its methods                       *)
(***************************************************************************)
execVars == <<wk, ch1, sent1>>
appVars == <<app, relay, ch2, db, saves, ai>>

BInit ==
    /\ now = 0
    /\ \E c \in Commands :
         \/ blk = BlockNew(1, c, 0)
         \/ \E nl \in NlInputs : blk = BlockNewPendingApproval(1, nl, c, 0)
    /\ lastOp = [op |-> "new", pre |-> blk, arg |-> None]

BStart ==
    /\ blk' = start_execution(blk, now)
    /\ lastOp' = [op |-> "start_execution", pre |-> blk, arg |-> None]
    /\ UNCHANGED <<now, execVars, appVars>>

BAppend ==
    /\ Len(blk.output) < MaxOut
    /\ \E t \in Texts :
         /\ blk' = append_output(blk, t)
         /\ lastOp' = [op |-> "append_output", pre |-> blk, arg |-> Some(t)]
    /\ UNCHANGED <<now, execVars, appVars>>

BComplete ==
    /\ \E c \in ExitCodes :
         /\ blk' = complete_execution(blk, c, now)
         /\ lastOp' = [op |-> "complete_execution", pre |-> blk, arg |-> Some(c)]
    /\ UNCHANGED <<now, execVars, appVars>>

BCancel ==
    /\ blk' = cancel(blk)
    /\ lastOp' = [op |-> "cancel", pre |-> blk, arg |-> None]
    /\ UNCHANGED <<now, execVars, appVars>>

\* save_block of the block followed by load_session
BReload ==
    /\ blk' = RowBlock(BlockRow(1, blk, 0))
    /\ lastOp' = [op |-> "load_session", pre |-> blk, arg |-> None]
    /\ UNCHANGED <<now, execVars, appVars>>

BTick ==
    /\ now < MaxClock
    /\ now' = now + 1
    /\ UNCHANGED <<blk, lastOp, execVars, appVars>>

BNext == BStart \/ BAppend \/ BComplete \/ BCancel \/ BReload \/ BTick

(***************************************************************************)
(* shell/executor.rs: ShellExecutor::execute and its blocking worker       *)
(***************************************************************************)
MaxIds == 3
MaxReads == 2
Ids == 1..MaxIds

\* the flush threshold of the read loop and the size of temp_buf
Threshold == 4096
TempBufSize == 8192

\* what one read() of the PTY master may return
Chunks ==
    { <<Pc("a", 1), NL>>, <<Pc("b", 1)>>, <<Pc("bad", 1), NL, Pc("c", 1)>>,
      <<Pc("d", Threshold + 1)>>, <<Pc("bad", 1), Pc("d", Threshold)>> }

\* exit statuses of the child as portable_pty reports them (u32)
ChildCodes == {0, 1}

\* what the child writes to the PTY over its life, one element per read() that
\* returns data
Scripts(chunks, n) == UNION { [1..k -> chunks] : k \in 0..n }
ExecScripts == Scripts(Chunks, MaxReads)

\* `exit_status.exit_code() as i32`
AsI32(u) == IF u > I32Max THEN (u - I32Max - 1) + I32Min ELSE u

\* OutputLine
Stdout(s) == [t |-> "Stdout", s |-> s]
Exit(code) == [t |-> "Exit", code |-> code]

RECURSIVE ByteLen(_)
\* Vec::len of a byte buffer
ByteLen(buf) == IF buf = <<>> THEN 0 ELSE Head(buf)[2] + ByteLen(Tail(buf))

\* String::from_utf8(bytes).is_ok()
Utf8Ok(buf) == \A i \in 1..Len(buf) : buf[i][1] # "bad"

\* buffer.iter().position(|&b| b == b'\n'), 0 for None
NewlinePos(buf) ==
    IF \E i \in 1..Len(buf) : buf[i] = NL
    THEN CHOOSE i \in 1..Len(buf) : buf[i] = NL /\ \A j \in 1..(i - 1) : buf[j] # NL
    ELSE 0

RECURSIVE DrainLines(_)
\* the `while let Some(newline_pos)` loop: the drained lines in order, and what is left
DrainLines(buf) ==
    IF NewlinePos(buf) = 0
    THEN [lines |-> <<>>, rest |-> buf]
    ELSE LET p == NewlinePos(buf)
             r == DrainLines(SubSeq(buf, p + 1, Len(buf)))
         IN  [lines |-> <<SubSeq(buf, 1, p)>> \o r.lines, rest |-> r.rest]

\* the lines of a drain that decode as UTF-8 (the others are dropped)
ValidLines(lines) == SelectSeq(lines, Utf8Ok)

\* the `if buffer.len() > 4096` branch: the fragment sent, if any
PartialFlush(rest) ==
    IF ByteLen(rest) > Threshold /\ Utf8Ok(rest) THEN <<rest>> ELSE <<>>

\* the buffer after the `if buffer.len() > 4096` branch
AfterPartial(rest) == IF ByteLen(rest) > Threshold THEN <<>> ELSE rest

\* the final `if !buffer.is_empty()` flush: the fragment sent, if any
FinalFlush(buf) == IF buf # <<>> /\ Utf8Ok(buf) THEN <<buf>> ELSE <<>>

\* mpsc::UnboundedSender::send: queued while the receiver is alive, an error otherwise
SendAll(ch, evs) == IF ch.rx THEN [ch EXCEPT !.q = @ \o evs] ELSE ch
Accepted(ch, evs) == IF ch.rx THEN evs ELSE <<>>

RECURSIVE MapStdout(_)
MapStdout(texts) ==
    IF texts = <<>> THEN <<>> ELSE <<Stdout(Head(texts))>> \o MapStdout(Tail(texts))

WkIdle == [pc |-> "idle", buffer |-> <<>>, pty |-> <<>>, child |-> "none",
           code |-> 0, hit |-> {}]
Ch1None == [q |-> <<>>, rx |-> FALSE, tx |-> FALSE]

\* the event the error handler of the closure in execute sends
ExitOfError == Exit(-1)

\* the event execute_blocking sends after child.wait() returned a status
ExitOfStatus(u) == Exit(AsI32(u))

\* ShellExecutor::execute: make the channel, spawn the blocking worker, return rx
Execute(e) ==
    /\ wk[e].pc = "idle"
    /\ wk' = [wk EXCEPT ![e].pc = "start"]
    /\ ch1' = [ch1 EXCEPT ![e] = [q |-> <<>>, rx |-> TRUE, tx |-> TRUE]]
    /\ UNCHANGED sent1

\* the worker ends: events evs are sent, both senders and the locals of
\* execute_blocking (buffer, reader, child handle) are dropped
WorkerEnds(e, evs) ==
    /\ wk' = [wk EXCEPT ![e] = [WkIdle EXCEPT !.pc = "done"]]
    /\ ch1' = [ch1 EXCEPT ![e] = [SendAll(ch1[e], evs) EXCEPT !.tx = FALSE]]
    /\ sent1' = [sent1 EXCEPT ![e] = @ \o Accepted(ch1[e], evs)]

\* the worker ends before the read loop: as WorkerEnds, and hit keeps "start"
\* as the history of how this execution ended
WorkerEndsAtStart(e, evs) ==
    /\ wk' = [wk EXCEPT ![e] = [WkIdle EXCEPT !.pc = "done", !.hit = {"start"}]]
    /\ ch1' = [ch1 EXCEPT ![e] = [SendAll(ch1[e], evs) EXCEPT !.tx = FALSE]]
    /\ sent1' = [sent1 EXCEPT ![e] = @ \o Accepted(ch1[e], evs)]

\* openpty, spawn_command, try_clone_reader succeed: the read loop starts
WStartOk(e, scripts) ==
    /\ wk[e].pc = "start"
    /\ \E s \in scripts :
         wk' = [wk EXCEPT ![e].pc = "read", ![e].child = "running", ![e].pty = s]
    /\ UNCHANGED <<ch1, sent1>>

\* an error handler in execute that only logs and sends no Exit
WStartFail_NoExit(e) ==
    /\ wk[e].pc = "start"
    /\ WorkerEndsAtStart(e, <<>>)

\* openpty, spawn_command or try_clone_reader fails: execute_blocking returns
\* Err and the closure sends Exit(-1)
WStartFail(e) ==
    /\ wk[e].pc = "start"
    /\ WorkerEndsAtStart(e, <<ExitOfError>>)

\* read returns Ok(n), n > 0
WRead(e) ==
    /\ wk[e].pc = "read"
    /\ wk[e].pty # <<>>
    /\ LET d == DrainLines(wk[e].buffer \o Head(wk[e].pty))
           lines == ValidLines(d.lines)
           w == [wk[e] EXCEPT !.pty = Tail(@)]
       IN  IF lines # <<>> /\ ~ch1[e].rx
             THEN \* `return Ok(())`: receiver dropped, no Exit is sent
                  WorkerEnds(e, <<>>)
             ELSE LET evs == MapStdout(lines \o PartialFlush(d.rest))
                  IN  /\ wk' = [wk EXCEPT ![e] = [w EXCEPT !.buffer = AfterPartial(d.rest)]]
                      /\ ch1' = [ch1 EXCEPT ![e] = SendAll(@, evs)]
                      /\ sent1' = [sent1 EXCEPT ![e] = @ \o Accepted(ch1[e], evs)]

\* read returns Err(WouldBlock): sleep 10 ms and read again
WReadWouldBlock(e) ==
    /\ wk[e].pc = "read"
    /\ UNCHANGED <<wk, ch1, sent1>>

\* the loop is left and the remaining buffer flushed
LoopExit(e, w) ==
    LET evs == MapStdout(FinalFlush(w.buffer))
    IN  /\ wk' = [wk EXCEPT ![e] = [w EXCEPT !.pc = "wait", !.buffer = <<>>]]
        /\ ch1' = [ch1 EXCEPT ![e] = SendAll(@, evs)]
        /\ sent1' = [sent1 EXCEPT ![e] = @ \o Accepted(ch1[e], evs)]

\* read returns Ok(0): the child has written everything and closed the terminal
WReadEof(e) ==
    /\ wk[e].pc = "read"
    /\ wk[e].pty = <<>>
    /\ LoopExit(e, wk[e])

\* read returns another error: logged, break
WReadErr(e) ==
    /\ wk[e].pc = "read"
    /\ LoopExit(e, [wk[e] EXCEPT !.hit = @ \cup {"read"}])

\* child.wait() returns the status of the exited child
WWait(e) ==
    /\ wk[e].pc = "wait"
    /\ wk[e].child = "exited"
    /\ WorkerEnds(e, <<ExitOfStatus(wk[e].code)>>)

\* child.wait() fails
WWaitErr(e) ==
    /\ wk[e].pc = "wait"
    /\ WorkerEnds(e, <<ExitOfError>>)

\* the child process exits; the worker observes it in child.wait() only
ChildExit(e) ==
    /\ wk[e].pc = "wait"
    /\ wk[e].child = "running"
    /\ \E c \in ChildCodes : wk' = [wk EXCEPT ![e].child = "exited", ![e].code = c]
    /\ UNCHANGED <<ch1, sent1>>

(***************************************************************************)
(* variable groups and the executor's initial state                        *)
(***************************************************************************)
blockVars == <<blk, lastOp, now>>
restVars == <<blockVars, appVars>>
vars == <<blk, lastOp, now, wk, ch1, sent1, app, relay, ch2, db, saves, ai>>

ExecInit ==
    /\ wk = [e \in Ids |-> WkIdle]
    /\ ch1 = [e \in Ids |-> Ch1None]
    /\ sent1 = [e \in Ids |-> <<>>]

(***************************************************************************)
(* core/manager.rs: BlockManager, the sequence of blocks                   *)
(***************************************************************************)
\* BlockManager::add_block
add_block(blocks, b) == Append(blocks, b)

\* blocks.iter().position(|b| &b.id == id), 0 for None
position(blocks, id) ==
    IF \E i \in 1..Len(blocks) : blocks[i].id = id
    THEN CHOOSE i \in 1..Len(blocks) :
             blocks[i].id = id /\ \A j \in 1..(i - 1) : blocks[j].id # id
    ELSE 0

\* BlockManager::get_block(id).is_some()
has_block(blocks, id) == position(blocks, id) # 0

\* BlockManager::get_block
get_block(blocks, id) == blocks[position(blocks, id)]

\* BlockManager::remove_block
remove_block(blocks, id) ==
    LET p == position(blocks, id)
    IN  IF p = 0 THEN blocks
        ELSE SubSeq(blocks, 1, p - 1) \o SubSeq(blocks, p + 1, Len(blocks))

\* BlockManager::get_running_blocks
get_running_blocks(blocks) == SelectSeq(blocks, is_running)

(***************************************************************************)
(* core/session_manager.rs: the store                                      *)
(***************************************************************************)
MaxSessions == 2
MaxSaves == 1
MaxAppReads == 1
MaxExecs == 2
MaxAppClock == 1
Sids == 1..MaxSessions

\* SessionManager::create_session: the row is inserted with is_active = 1
create_session(d, sid) ==
    [d EXCEPT !.sessions = @ \cup {[id |-> sid, is_active |-> TRUE]}]

session_exists(d, sid) == \E r \in d.sessions : r.id = sid

\* SessionManager::set_active_session
set_active_session(d, sid) ==
    [d EXCEPT !.sessions = { [r EXCEPT !.is_active = (r.id = sid)] : r \in @ }]

\* the schema of migrations/001_initial_schema.sql as spec.md 4.4 describes
\* it: deleting a session row deletes the block rows that reference it
OnDeleteCascade(d) ==
    [d EXCEPT !.blocks = { r \in @ : session_exists(d, r.session_id) }]

\* a save_block that inserts without replacing the row of the same id
save_block_Insert(d, sid, b, order) ==
    [d EXCEPT !.blocks = @ \cup {BlockRow(sid, b, order)}]

\* SessionManager::save_block: INSERT OR REPLACE, keyed by the block id
save_block(d, sid, b, order) ==
    [d EXCEPT !.blocks = { r \in @ : r.id # b.id } \cup {BlockRow(sid, b, order)}]

\* a delete_session whose DELETE has no WHERE clause
delete_session_AllRows(d, sid) == [d EXCEPT !.sessions = {}]

\* SessionManager::delete_session: DELETE FROM sessions WHERE id = ?
delete_session(d, sid) == [d EXCEPT !.sessions = { r \in @ : r.id # sid }]

\* SessionManager::get_active_session: the ids WHERE is_active = 1
active_sessions(d) == { r.id : r \in { x \in d.sessions : x.is_active } }

\* the rows of SELECT ... WHERE session_id = ? in every order that
\* ORDER BY block_order ASC allows (rows with equal block_order come in any order)
OrderedRows(d, sid) ==
    LET rows == { r \in d.blocks : r.session_id = sid }
        n == Cardinality(rows)
    IN  { s \in [1..n -> rows] :
            /\ \A i, j \in 1..n : i # j => s[i] # s[j]
            /\ \A i, j \in 1..n : i < j => s[i].block_order <= s[j].block_order }

\* SessionManager::load_blocks on the rows in order
load_blocks(rows) == [i \in 1..Len(rows) |-> RowBlock(rows[i])]

(***************************************************************************)
(* ui/app.rs: ImmateriumApp.  A world w is the application struct together *)
(* with what its handlers reach: tasks, channels, store.                   *)
(***************************************************************************)
\* OutputMessage
Output(s) == [t |-> "Output", s |-> s]
OutExit(code) == [t |-> "Exit", code |-> code]

\* AiMessage
CommandGenerated(c) == [t |-> "CommandGenerated", command |-> c]
AiError == [t |-> "Error"]

Ch2None == [q |-> <<>>, rx |-> FALSE, tx |-> FALSE]

World == [app |-> app, relay |-> relay, ch2 |-> ch2, db |-> db, saves |-> saves, ai |-> ai]

Commit(w) ==
    /\ app' = w.app
    /\ relay' = w.relay
    /\ ch2' = w.ch2
    /\ db' = w.db
    /\ saves' = w.saves
    /\ ai' = w.ai

\* dropping an UnboundedReceiver: what is queued is gone, later sends fail
DropRx2(c, r) == IF IsSome(r) THEN [c EXCEPT ![Unwrap(r)].rx = FALSE, ![Unwrap(r)].q = <<>>] ELSE c

\* an execute_shell_command that keeps the receiver of a command still running
\* and only redirects current_block_id to the new block
execute_shell_command_KeepReceiver(w, command, t) ==
    LET id == w.app.next_id
        block == start_execution(BlockNew(id, command, t), t)
    IN  [w EXCEPT !.app.blocks = add_block(@, block),
                  !.app.current_block_id = Some(id),
                  !.app.save_needed = TRUE,
                  !.app.output_receiver = IF IsSome(@) THEN @ ELSE Some(id),
                  !.app.next_id = id + 1,
                  !.ch2 = [@ EXCEPT ![id] = [q |-> <<>>, rx |-> TRUE, tx |-> TRUE]],
                  !.relay = [@ EXCEPT ![id] = "start"]]

\* ImmateriumApp::execute_shell_command
execute_shell_command(w, command, t) ==
    LET id == w.app.next_id
        block == start_execution(BlockNew(id, command, t), t)
    IN  [w EXCEPT !.app.blocks = add_block(@, block),
                  !.app.current_block_id = Some(id),
                  !.app.save_needed = TRUE,
                  !.app.output_receiver = Some(id),
                  !.app.next_id = id + 1,
                  !.ch2 = [DropRx2(@, w.app.output_receiver) EXCEPT
                              ![id] = [q |-> <<>>, rx |-> TRUE, tx |-> TRUE]],
                  !.relay = [@ EXCEPT ![id] = "start"]]

\* ImmateriumApp::auto_save
auto_save(w) ==
    IF ~w.app.elapsed \/ ~w.app.save_needed
    THEN w
    ELSE [w EXCEPT !.saves = Append(@, [sid |-> w.app.session_id,
                                        blocks |-> w.app.blocks, idx |-> 1]),
                   !.app.elapsed = FALSE,
                   !.app.save_needed = FALSE]

\* a handler that applies the message to the last block of the manager
\* (get_last_block_mut) instead of looking current_block_id up
apply_message_LastBlock(a, msg, t) ==
    LET p == Len(a.blocks)
    IN  IF msg.t = "Output"
        THEN IF p # 0
             THEN [a EXCEPT !.blocks[p] = append_output(@, msg.s), !.save_needed = TRUE]
             ELSE a
        ELSE IF p # 0
             THEN [a EXCEPT !.blocks[p] = complete_execution(@, msg.code, t),
                            !.save_needed = TRUE,
                            !.current_block_id = None]
             ELSE [a EXCEPT !.current_block_id = None]

\* one OutputMessage in the try_recv loop of update
apply_message(a, msg, t) ==
    LET cur == a.current_block_id
        found == IsSome(cur) /\ has_block(a.blocks, Unwrap(cur))
        p == position(a.blocks, Unwrap(cur))
    IN  IF msg.t = "Output"
        THEN IF found
             THEN [a EXCEPT !.blocks[p] = append_output(@, msg.s), !.save_needed = TRUE]
             ELSE a
        ELSE IF found
             THEN [a EXCEPT !.blocks[p] = complete_execution(@, msg.code, t),
                            !.save_needed = TRUE,
                            !.current_block_id = None]
             ELSE [a EXCEPT !.current_block_id = None]

RECURSIVE apply_messages(_, _, _)
apply_messages(a, msgs, t) ==
    IF msgs = <<>> THEN a
    ELSE apply_messages(apply_message(a, Head(msgs), t), Tail(msgs), t)

\* update: "Poll output receiver for new output"
poll_output(w, t) ==
    IF w.app.output_receiver = None
    THEN w
    ELSE LET r == Unwrap(w.app.output_receiver)
             msgs == w.ch2[r].q
             a == apply_messages(w.app, msgs, t)
             should_clear_receiver == \E i \in 1..Len(msgs) : msgs[i].t = "Exit"
         IN  IF should_clear_receiver
             THEN [w EXCEPT !.app = [a EXCEPT !.output_receiver = None],
                            !.ch2 = DropRx2(@, Some(r))]
             ELSE [w EXCEPT !.app = a, !.ch2[r].q = <<>>]

\* one AiMessage in the try_recv loop of update
apply_ai_message(a, msg, t) ==
    IF msg.t = "CommandGenerated"
    THEN [a EXCEPT !.blocks = add_block(@, BlockNewPendingApproval(
                                  a.next_id, a.original_nl_input, msg.command, t)),
                   !.next_id = @ + 1,
                   !.is_generating_command = FALSE,
                   !.original_nl_input = ""]
    ELSE [a EXCEPT !.is_generating_command = FALSE]

RECURSIVE apply_ai_messages(_, _, _)
apply_ai_messages(a, msgs, t) ==
    IF msgs = <<>> THEN a
    ELSE apply_ai_messages(apply_ai_message(a, Head(msgs), t), Tail(msgs), t)

\* update: "Poll AI receiver for AI responses"
poll_ai(w, t) ==
    [w EXCEPT !.app = apply_ai_messages(@, w.ai.q, t), !.ai.q = <<>>]

\* update, up to the widgets: auto-save, then the two polls
polled(w, t) == poll_ai(poll_output(auto_save(w), t), t)

\* ImmateriumApp::convert_natural_language_to_command (an AI engine is
\* configured and a model selected)
convert_natural_language_to_command(w, nl) ==
    [w EXCEPT !.app.original_nl_input = nl,
              !.app.is_generating_command = TRUE,
              !.ai = [task |-> "pending", q |-> <<>>]]

\* ImmateriumApp::switch_to_session, load_session having returned rows
switch_to_session(w, sid, rows) ==
    LET w1 == auto_save(w)
    IN  [w1 EXCEPT !.app.session_id = sid,
                   !.app.session_blocks = load_blocks(rows),
                   !.app.blocks = load_blocks(rows),
                   !.db = set_active_session(@, sid)]

\* what the user types as a shell command, what the engine answers
ShellInputs == {"ls"}
AiCommands == {"false"}

\* the blocks about to be created by poll_ai in this frame
AiAllocs == Len(SelectSeq(ai.q, LAMBDA m : m.t = "CommandGenerated"))

\* the executions started so far
Started == { e \in Ids : relay[e] # "none" }

\* the model's budget for a frame whose widgets start n executions: each
\* takes a fresh block id, and MaxExecs executions are started in all
Budget(n) ==
    /\ app.next_id + AiAllocs + n <= MaxIds + 1
    /\ Cardinality(Started) + n <= MaxExecs

FrameEnds(w) ==
    /\ Len(w.saves) <= MaxSaves
    /\ Commit(w)
    /\ UNCHANGED <<execVars, blockVars>>

\* a frame without input
FrameIdle ==
    /\ Budget(0)
    /\ FrameEnds(polled(World, now))

\* Enter in the command input: execute_command, the input taken as a shell command
FrameSubmitShell ==
    /\ Budget(1)
    /\ \E c \in ShellInputs :
         LET w == polled(World, now)
         IN  FrameEnds(IF IsSome(w.app.current_block_id)
                       THEN w
                       ELSE execute_shell_command(w, c, now))

\* Enter in the command input: execute_command, the input taken as natural language
FrameSubmitNl ==
    /\ Budget(0)
    /\ \E nl \in NlInputs :
         LET w == polled(World, now)
         IN  FrameEnds(IF IsSome(w.app.current_block_id)
                       THEN w
                       ELSE convert_natural_language_to_command(w, nl))

\* the widgets of the PendingApproval block at position i
PendingAt(w, i) == i \in 1..Len(w.app.blocks) /\ w.app.blocks[i].state = "PendingApproval"

\* "Execute" on a PendingApproval block
FrameApprove ==
    /\ Budget(1)
    /\ LET w == polled(World, now)
       IN  \E i \in 1..Len(w.app.blocks) :
             /\ PendingAt(w, i)
             /\ FrameEnds(execute_shell_command(
                    [w EXCEPT !.app.blocks = remove_block(@, w.app.blocks[i].id)],
                    w.app.blocks[i].command, now))

\* "Cancel" or "Edit" on a PendingApproval block
FrameReject ==
    /\ Budget(0)
    /\ LET w == polled(World, now)
       IN  \E i \in 1..Len(w.app.blocks) :
             /\ PendingAt(w, i)
             /\ FrameEnds([w EXCEPT !.app.blocks = remove_block(@, w.app.blocks[i].id)])

\* "Regenerate" on a PendingApproval block
FrameRegenerate ==
    /\ Budget(0)
    /\ LET w == polled(World, now)
       IN  \E i \in 1..Len(w.app.blocks) :
             /\ PendingAt(w, i)
             /\ IsSome(w.app.blocks[i].original_input)
             /\ FrameEnds(convert_natural_language_to_command(
                    [w EXCEPT !.app.blocks = remove_block(@, w.app.blocks[i].id)],
                    Unwrap(w.app.blocks[i].original_input)))

\* "Delete Block" in the context menu of a block
FrameDelete ==
    /\ Budget(0)
    /\ LET w == polled(World, now)
       IN  \E i \in 1..Len(w.app.blocks) :
             FrameEnds([w EXCEPT !.app.blocks = remove_block(@, w.app.blocks[i].id)])

\* "Save Session" in the File menu
FrameSave ==
    /\ Budget(0)
    /\ LET w == polled(World, now)
       IN  FrameEnds(auto_save([w EXCEPT !.app.save_needed = TRUE]))

\* a session other than the current one picked in the "Open Session" dialog
FrameSwitch ==
    /\ Budget(0)
    /\ LET w == polled(World, now)
       IN  \E sid \in Sids :
             /\ sid # w.app.session_id
             /\ session_exists(w.db, sid)
             /\ \E rows \in OrderedRows(w.db, sid) :
                  FrameEnds(switch_to_session(w, sid, rows))

\* "Create" in the "New Session" dialog: create_new_session
FrameNewSession ==
    /\ Budget(0)
    /\ LET w == polled(World, now)
           sid == w.app.next_sid
           w1 == [w EXCEPT !.db = create_session(@, sid), !.app.next_sid = sid + 1]
       IN  /\ sid \in Sids
           /\ \E rows \in OrderedRows(w1.db, sid) :
                FrameEnds(switch_to_session(w1, sid, rows))

\* the relay task starts: executor.execute(command).await
RelayStart(e) ==
    /\ relay[e] = "start"
    /\ Execute(e)
    /\ relay' = [relay EXCEPT ![e] = "recv"]
    /\ UNCHANGED <<app, ch2, db, saves, ai, blockVars>>

\* tokio::sync::mpsc::UnboundedSender::send on the output channel
Send2(c, msg) == IF c.rx THEN [c EXCEPT !.q = Append(@, msg)] ELSE c

\* the relay task: rx.recv().await returns
RelayRecv(e) ==
    /\ relay[e] = "recv"
    /\ ch1[e].q # <<>> \/ ~ch1[e].tx
    /\ IF ch1[e].q = <<>>
       THEN \* None: the worker is gone, the loop and the task end
            /\ relay' = [relay EXCEPT ![e] = "done"]
            /\ ch1' = [ch1 EXCEPT ![e].rx = FALSE]
            /\ ch2' = [ch2 EXCEPT ![e].tx = FALSE]
       ELSE LET line == Head(ch1[e].q)
            IN  IF line.t = "Exit"
                THEN /\ relay' = [relay EXCEPT ![e] = "done"]
                     /\ ch1' = [ch1 EXCEPT ![e].rx = FALSE, ![e].q = <<>>]
                     /\ ch2' = [ch2 EXCEPT ![e] = [Send2(@, OutExit(line.code))
                                                      EXCEPT !.tx = FALSE]]
                ELSE /\ relay' = relay
                     /\ ch1' = [ch1 EXCEPT ![e].q = Tail(@)]
                     /\ ch2' = [ch2 EXCEPT ![e] = Send2(@, Output(line.s))]
    /\ UNCHANGED <<wk, sent1, app, db, saves, ai, blockVars>>

\* the command-generation task answers
AiRespond ==
    /\ ai.task = "pending"
    /\ \E m \in {CommandGenerated(c) : c \in AiCommands} \cup {AiError} :
         /\ m.t = "CommandGenerated" => app.next_id <= MaxIds
         /\ ai' = [task |-> "none", q |-> <<m>>]
    /\ UNCHANGED <<app, relay, ch2, db, saves, execVars, blockVars>>

\* an auto-save task writes its next block: save_block(session_id, block, index)
SaveStep ==
    /\ \E k \in 1..Len(saves) :
         /\ saves[k].idx <= Len(saves[k].blocks)
         /\ db' = save_block(db, saves[k].sid, saves[k].blocks[saves[k].idx],
                             saves[k].idx - 1)
         /\ saves' = [saves EXCEPT ![k].idx = @ + 1]
    /\ UNCHANGED <<app, relay, ch2, ai, execVars, blockVars>>

\* save_block returns Err in an auto-save task (the store refuses the
\* write): the error is logged and the loop goes on to the next block
SaveStepErr ==
    /\ \E k \in 1..Len(saves) :
         /\ saves[k].idx <= Len(saves[k].blocks)
         /\ saves' = [saves EXCEPT ![k].idx = @ + 1]
    /\ UNCHANGED <<app, relay, ch2, db, ai, execVars, blockVars>>

\* an auto-save task has written every block: touch_session, the task ends
SaveTouch ==
    /\ \E k \in 1..Len(saves) :
         /\ saves[k].idx > Len(saves[k].blocks)
         /\ saves' = SubSeq(saves, 1, k - 1) \o SubSeq(saves, k + 1, Len(saves))
    /\ UNCHANGED <<app, relay, ch2, db, ai, execVars, blockVars>>

\* time passes: the clock advances and the auto-save interval elapses
Tick ==
    /\ now < MaxAppClock \/ ~app.elapsed
    /\ now' = IF now < MaxAppClock THEN now + 1 ELSE now
    /\ app' = [app EXCEPT !.elapsed = TRUE]
    /\ UNCHANGED <<blk, lastOp, relay, ch2, db, saves, ai, execVars>>

\* what a child of the application writes to its terminal
AppChunks == { <<Pc("a", 1), NL, Pc("b", 1)>> }
AppScripts == Scripts(AppChunks, MaxAppReads)

AppInit ==
    /\ app = [ blocks |-> <<>>, current_block_id |-> None, output_receiver |-> None,
               next_id |-> 1, next_sid |-> 2, session_id |-> 1, session_blocks |-> <<>>,
               save_needed |-> FALSE, elapsed |-> FALSE,
               original_nl_input |-> "", is_generating_command |-> FALSE ]
    /\ relay = [e \in Ids |-> "none"]
    /\ ch2 = [e \in Ids |-> Ch2None]
    /\ db = [ sessions |-> {[id |-> 1, is_active |-> TRUE]}, blocks |-> {} ]
    /\ saves = <<>>
    /\ ai = [task |-> "none", q |-> <<>>]

Init ==
    /\ AppInit
    /\ ExecInit
    /\ now = 0
    /\ blk = BlockNew(1, "ls", 0)
    /\ lastOp = [op |-> "new", pre |-> blk, arg |-> None]

\* the steps of one execution: its relay task, its worker, its child
Pipeline(e) ==
    \/ RelayStart(e) \/ RelayRecv(e)
    \/ (WStartOk(e, AppScripts) /\ UNCHANGED restVars)
    \/ (WRead(e) /\ UNCHANGED restVars)
    \/ (WReadEof(e) /\ UNCHANGED restVars)
    \/ (WWait(e) /\ UNCHANGED restVars)
    \/ (ChildExit(e) /\ UNCHANGED restVars)

\* Spec: the application within one auto-save interval of its start, in one
\* session: commands, generated commands and their approval, block removal
Next ==
    \/ FrameIdle \/ FrameSubmitShell \/ FrameSubmitNl \/ FrameApprove \/ FrameReject
    \/ FrameRegenerate \/ FrameDelete \/ FrameSave
    \/ AiRespond
    \/ \E e \in Ids :
         \/ RelayStart(e) \/ RelayRecv(e)
         \/ (WStartOk(e, AppScripts) /\ UNCHANGED restVars)
         \/ (WStartFail(e) /\ UNCHANGED restVars)
         \/ (WRead(e) /\ UNCHANGED restVars)
         \/ (WReadWouldBlock(e) /\ UNCHANGED restVars)
         \/ (WReadEof(e) /\ UNCHANGED restVars)
         \/ (WReadErr(e) /\ UNCHANGED restVars)
         \/ (WWait(e) /\ UNCHANGED restVars)
         \/ (WWaitErr(e) /\ UNCHANGED restVars)
         \/ (ChildExit(e) /\ UNCHANGED restVars)

\* the update loop keeps running, tasks and threads are scheduled, children exit
Fairness ==
    /\ WF_vars(FrameIdle)
    /\ \A e \in Ids : WF_vars(Pipeline(e))

\* SpecSession: the application over auto-save intervals and sessions, with
\* MaxSessionBlocks commands submitted
MaxSessionBlocks == 1
SessBudget == app.next_id <= MaxSessionBlocks

SessNext ==
    \/ FrameIdle
    \/ (SessBudget /\ FrameSubmitShell)
    \/ FrameDelete \/ FrameSave \/ FrameSwitch \/ FrameNewSession
    \/ Tick \/ SaveStep \/ SaveStepErr \/ SaveTouch
    \/ \E e \in Ids :
         \/ RelayStart(e) \/ RelayRecv(e)
         \/ (WStartOk(e, AppScripts) /\ UNCHANGED restVars)
         \/ (WStartFail(e) /\ UNCHANGED restVars)
         \/ (WRead(e) /\ UNCHANGED restVars)
         \/ (WReadWouldBlock(e) /\ UNCHANGED restVars)
         \/ (WReadEof(e) /\ UNCHANGED restVars)
         \/ (WReadErr(e) /\ UNCHANGED restVars)
         \/ (WWait(e) /\ UNCHANGED restVars)
         \/ (WWaitErr(e) /\ UNCHANGED restVars)
         \/ (ChildExit(e) /\ UNCHANGED restVars)

(***************************************************************************)
(* SpecStore: a block sequence and the store, any sequence of changes to  *)
(* the sequence, save rounds and loads                                     *)
(***************************************************************************)
MaxStoreBlocks == 2

\* the blocks a caller may hold: new, running, or finished with output
BlockShapes(id, t) ==
    LET new == BlockNew(id, "ls", t)
    IN  {new, start_execution(new, t)}
        \cup { complete_execution(append_output(start_execution(new, t), text), c, t) :
                 text \in Texts, c \in ChildCodes }

\* the loop of the auto-save task: save_block(session_id, block, index) in turn
RECURSIVE save_all(_, _, _, _)
save_all(d, sid, blocks, i) ==
    IF i > Len(blocks) THEN d
    ELSE save_all(save_block(d, sid, blocks[i], i - 1), sid, blocks, i + 1)

StoreOp(op) ==
    /\ lastOp' = [op |-> op, pre |-> blk, arg |-> None]
    /\ UNCHANGED <<blk, relay, ch2, saves, ai, execVars>>

\* BlockManager::add_block
SAddBlock ==
    /\ app.next_id <= MaxStoreBlocks
    /\ \E b \in BlockShapes(app.next_id, now) :
         app' = [app EXCEPT !.blocks = add_block(@, b), !.next_id = @ + 1]
    /\ UNCHANGED <<db, now>>
    /\ StoreOp("add_block")

\* BlockManager::remove_block
SRemoveBlock ==
    /\ \E i \in 1..Len(app.blocks) :
         app' = [app EXCEPT !.blocks = remove_block(@, app.blocks[i].id)]
    /\ UNCHANGED <<db, now>>
    /\ StoreOp("remove_block")

\* one whole auto-save round of the sequence
SSaveAll ==
    /\ db' = save_all(db, app.session_id, app.blocks, 1)
    /\ UNCHANGED <<app, now>>
    /\ StoreOp("save_all")

\* load_session, the manager rebuilt from it as switch_to_session does
SLoad ==
    /\ \E rows \in OrderedRows(db, app.session_id) :
         app' = [app EXCEPT !.blocks = load_blocks(rows)]
    /\ UNCHANGED <<db, now>>
    /\ StoreOp("load_session")

STick ==
    /\ now < MaxAppClock
    /\ now' = now + 1
    /\ UNCHANGED <<app, db>>
    /\ StoreOp("tick")

StoreNext == SAddBlock \/ SRemoveBlock \/ SSaveAll \/ SLoad \/ STick

(***************************************************************************)
(* SpecManager: the BlockManager alone, any sequence of its operations.    *)
(* app holds the manager (blocks, selected_block); lastOp the operation    *)
(* just made, its id argument, the manager before it and what it returned. *)
(***************************************************************************)
MaxMgrIds == 3
MgrIds == 1..MaxMgrIds

\* BlockManager::new
BlockManagerNew == [blocks |-> <<>>, selected_block |-> None]

\* the loop "for block in &mut self.blocks { block.set_selected(false) }"
DeselectEach(blocks) ==
    [i \in 1..Len(blocks) |-> [blocks[i] EXCEPT !.is_selected = FALSE]]

\* a select_block without the loop that deselects every block first
select_block_NoDeselect(m, id) ==
    LET p == position(m.blocks, id)
    IN  IF p # 0
        THEN [m EXCEPT !.blocks[p].is_selected = TRUE, !.selected_block = Some(id)]
        ELSE m

\* BlockManager::select_block
select_block(m, id) ==
    LET cleared == [m EXCEPT !.blocks = DeselectEach(@)]
        p == position(cleared.blocks, id)
    IN  IF p # 0
        THEN [cleared EXCEPT !.blocks[p].is_selected = TRUE, !.selected_block = Some(id)]
        ELSE cleared

\* BlockManager::deselect_all
deselect_all(m) == [blocks |-> DeselectEach(m.blocks), selected_block |-> None]

\* BlockManager::clear_all
clear_all(m) == [blocks |-> <<>>, selected_block |-> None]

\* BlockManager::get_block as an Option
find_block(m, id) ==
    IF has_block(m.blocks, id) THEN Some(get_block(m.blocks, id)) ELSE None

\* BlockManager::get_selected_block
get_selected_block(m) ==
    IF IsSome(m.selected_block) THEN find_block(m, Unwrap(m.selected_block)) ELSE None

\* BlockManager::toggle_block_collapsed
toggle_block_collapsed(m, id) ==
    LET p == position(m.blocks, id)
    IN  IF p # 0 THEN [m EXCEPT !.blocks[p].is_collapsed = ~@] ELSE m

\* BlockManager::copy_block_command, copy_block_output
copy_block_command(m, id) ==
    IF has_block(m.blocks, id) THEN Some(get_block(m.blocks, id).command) ELSE None

copy_block_output(m, id) ==
    IF has_block(m.blocks, id) THEN Some(get_block(m.blocks, id).output) ELSE None

\* BlockManager::copy_block_full: "$ {}\n{}\n[Exit code: {}]", as the three
\* values the format string is filled with
copy_block_full(m, id) ==
    IF has_block(m.blocks, id)
    THEN LET b == get_block(m.blocks, id)
         IN  Some(<<b.command, b.output,
                    IF IsSome(b.exit_code) THEN Unwrap(b.exit_code) ELSE -1>>)
    ELSE None

\* BlockManager::duplicate_block_for_edit; new_id is the id Block::new draws
duplicate_block_for_edit(m, id, new_id, t) ==
    IF has_block(m.blocks, id)
    THEN [m EXCEPT !.blocks = Append(@, BlockNew(new_id, get_block(m.blocks, id).command, t))]
    ELSE m

\* ids a new block can get: a fresh Uuid is no id the manager knows
FreshIds(m) ==
    { id \in MgrIds : ~has_block(m.blocks, id) /\ m.selected_block # Some(id) }

MgrOp(op, id, ret) ==
    /\ lastOp' = [op |-> op, pre |-> app, arg |-> id, ret |-> ret]
    /\ UNCHANGED <<blk, now, relay, ch2, db, saves, ai, execVars>>

\* add_block of a block as its callers build it: Block::new, or a block
\* load_blocks returns
MAddBlock ==
    \E id \in FreshIds(app) :
        /\ app' = [app EXCEPT !.blocks = add_block(@, BlockNew(id, "ls", now))]
        /\ MgrOp("add_block", id, Some(id))

MGetBlock ==
    \E id \in MgrIds :
        /\ app' = app
        /\ MgrOp("get_block", id, find_block(app, id))

MRemoveBlock ==
    \E id \in MgrIds :
        /\ app' = [app EXCEPT !.blocks = remove_block(@, id)]
        /\ MgrOp("remove_block", id, find_block(app, id))

MSelectBlock ==
    \E id \in MgrIds :
        /\ app' = select_block(app, id)
        /\ MgrOp("select_block", id, None)

MDeselectAll ==
    /\ app' = deselect_all(app)
    /\ MgrOp("deselect_all", 0, None)

MClearAll ==
    /\ app' = clear_all(app)
    /\ MgrOp("clear_all", 0, None)

MToggleCollapsed ==
    \E id \in MgrIds :
        /\ app' = toggle_block_collapsed(app, id)
        /\ MgrOp("toggle_block_collapsed", id, None)

MCopy ==
    \E id \in MgrIds :
        /\ app' = app
        /\ \/ MgrOp("copy_block_command", id, copy_block_command(app, id))
           \/ MgrOp("copy_block_output", id, copy_block_output(app, id))
           \/ MgrOp("copy_block_full", id, copy_block_full(app, id))

MDuplicate ==
    \E id \in MgrIds :
        IF has_block(app.blocks, id)
        THEN \E new_id \in FreshIds(app) :
                /\ app' = duplicate_block_for_edit(app, id, new_id, now)
                /\ MgrOp("duplicate_block_for_edit", id, Some(new_id))
        ELSE /\ app' = duplicate_block_for_edit(app, id, id, now)
             /\ MgrOp("duplicate_block_for_edit", id, None)

MInit ==
    /\ ExecInit
    /\ now = 0
    /\ blk = BlockNew(1, "ls", 0)
    /\ app = BlockManagerNew
    /\ relay = [e \in Ids |-> "none"]
    /\ ch2 = [e \in Ids |-> Ch2None]
    /\ db = [ sessions |-> {}, blocks |-> {} ]
    /\ saves = <<>>
    /\ ai = [task |-> "none", q |-> <<>>]
    /\ lastOp = [op |-> "new", pre |-> BlockManagerNew, arg |-> 0, ret |-> None]

MNext ==
    \/ MAddBlock \/ MGetBlock \/ MRemoveBlock \/ MSelectBlock \/ MDeselectAll
    \/ MClearAll \/ MToggleCollapsed \/ MCopy \/ MDuplicate

(***************************************************************************)
(* SpecDb: the SessionManager, any sequence of its calls.  lastOp holds    *)
(* the call just made: its name, its arguments, the store before it.       *)
(***************************************************************************)
\* the blocks handed to save_block
DbBlocks ==
    UNION { { BlockNew(id, "ls", 0),
              complete_execution(append_output(start_execution(
                  BlockNew(id, "ls", 0), 0), <<Pc("a", 1)>>), 0, 0) } :
            id \in 1..MaxStoreBlocks }

DbOrders == 0..(MaxStoreBlocks - 1)

DbOp(op, arg) ==
    /\ lastOp' = [op |-> op, pre |-> db, arg |-> arg]
    /\ UNCHANGED <<blk, now, app, relay, ch2, saves, ai, execVars>>

\* create_session of a session with a fresh id
DCreateSession ==
    \E sid \in Sids :
        /\ ~session_exists(db, sid)
        /\ db' = create_session(db, sid)
        /\ DbOp("create_session", sid)

DSetActiveSession ==
    \E sid \in Sids :
        /\ db' = set_active_session(db, sid)
        /\ DbOp("set_active_session", sid)

DDeleteSession ==
    \E sid \in Sids :
        /\ db' = OnDeleteCascade(delete_session(db, sid))
        /\ DbOp("delete_session", sid)

\* save_block under the id of a stored session, as its callers hand it the
\* current session's id
DSaveBlock ==
    \E sid \in Sids : \E b \in DbBlocks : \E order \in DbOrders :
        /\ session_exists(db, sid)
        /\ db' = save_block(db, sid, b, order)
        /\ DbOp("save_block", [sid |-> sid, block |-> b, order |-> order])

DbInit ==
    /\ AppInit
    /\ ExecInit
    /\ now = 0
    /\ blk = BlockNew(1, "ls", 0)
    /\ lastOp = [op |-> "new", pre |-> db, arg |-> None]

DbNext == DCreateSession \/ DSetActiveSession \/ DDeleteSession \/ DSaveBlock

(***************************************************************************)
(* SpecExec: one call of execute, consumed as test_async_command does      *)
(***************************************************************************)
XInit ==
    /\ ExecInit
    /\ AppInit
    /\ now = 0
    /\ blk = BlockNew(1, "ls", 0)
    /\ lastOp = [op |-> "new", pre |-> blk, arg |-> None]

XExecute == Execute(1) /\ UNCHANGED restVars

\* rx.recv().await returns Some(line)
XRecv ==
    /\ ch1[1].rx
    /\ ch1[1].q # <<>>
    /\ ch1' = [ch1 EXCEPT ![1].q = Tail(@)]
    /\ UNCHANGED <<wk, sent1, restVars>>

\* the caller drops the receiver
XDropRx ==
    /\ ch1[1].rx
    /\ ch1' = [ch1 EXCEPT ![1].rx = FALSE, ![1].q = <<>>]
    /\ UNCHANGED <<wk, sent1, restVars>>

XNext ==
    \/ XExecute \/ XRecv \/ XDropRx
    \/ (WStartOk(1, ExecScripts) /\ UNCHANGED restVars)
    \/ (WStartFail(1) /\ UNCHANGED restVars)
    \/ (WRead(1) /\ UNCHANGED restVars)
    \/ (WReadWouldBlock(1) /\ UNCHANGED restVars)
    \/ (WReadEof(1) /\ UNCHANGED restVars)
    \/ (WReadErr(1) /\ UNCHANGED restVars)
    \/ (WWait(1) /\ UNCHANGED restVars)
    \/ (WWaitErr(1) /\ UNCHANGED restVars)
    \/ (ChildExit(1) /\ UNCHANGED restVars)

(***************************************************************************)
(* SpecLoad: the text columns of the store.  db holds one session row and  *)
(* its block rows as save_block writes them, timestamps as RFC 3339 text;  *)
(* a column can also hold text that no save wrote (a store written by      *)
(* another version or edited by hand).  lastOp holds what load_session     *)
(* returned.                                                               *)
(***************************************************************************)
MaxLoadBlocks == 2

\* DateTime::to_rfc3339: text that parses back to the instant
to_rfc3339(t) == [wellformed |-> TRUE, t |-> t]

\* text that is no RFC 3339 timestamp
Malformed == [wellformed |-> FALSE, t |-> 0]

\* DateTime::parse_from_rfc3339(..).ok()
parse_from_rfc3339(s) == IF s.wellformed THEN Some(s.t) ELSE None

\* Option::map(|dt| dt.to_rfc3339())
MapRfc3339(o) == IF IsSome(o) THEN Some(to_rfc3339(Unwrap(o))) ELSE None

\* the row save_block binds: BlockRow with the timestamps as text
TextRow(session_id, b, order) ==
    [BlockRow(session_id, b, order) EXCEPT
        !.timestamp = to_rfc3339(@),
        !.started_at = MapRfc3339(@),
        !.completed_at = MapRfc3339(@)]

\* Result
Ok(v) == [ok |-> TRUE, v |-> v]
Err == [ok |-> FALSE, v |-> <<>>]

\* started_at.and_then(|s| parse_from_rfc3339(&s).ok())
AndThenParse(o) == IF IsSome(o) THEN parse_from_rfc3339(Unwrap(o)) ELSE None

\* one iteration of the loop of load_blocks: "timestamp" is parsed with ?,
\* started_at and completed_at with .ok()
load_row(r) ==
    IF ~IsSome(parse_from_rfc3339(r.timestamp))
    THEN Err
    ELSE Ok(RowBlock([r EXCEPT !.timestamp = Unwrap(parse_from_rfc3339(@)),
                               !.started_at = AndThenParse(@),
                               !.completed_at = AndThenParse(@)]))

\* SessionManager::load_blocks on the text rows in order: the first Err
\* ends the call
load_text_blocks(rows) ==
    IF \E i \in 1..Len(rows) : ~load_row(rows[i]).ok
    THEN Err
    ELSE Ok([i \in 1..Len(rows) |-> load_row(rows[i]).v])

\* SessionManager::load_session on the session row and its rows in order
load_session(srow, rows) ==
    IF ~IsSome(parse_from_rfc3339(srow.created_at)) \/ ~IsSome(parse_from_rfc3339(srow.updated_at))
    THEN Err
    ELSE IF ~load_text_blocks(rows).ok
         THEN Err
         ELSE Ok([id |-> srow.id, created_at |-> Unwrap(parse_from_rfc3339(srow.created_at)),
                  updated_at |-> Unwrap(parse_from_rfc3339(srow.updated_at)),
                  blocks |-> load_text_blocks(rows).v])

\* the blocks the application saves: one of each state a block can be in
LoadBlocks ==
    UNION { { BlockNew(id, "ls", 0),
              BlockNewPendingApproval(id, "list files", "ls", 0),
              start_execution(BlockNew(id, "ls", 0), 0),
              complete_execution(start_execution(BlockNew(id, "ls", 0), 0), 0, 0),
              complete_execution(start_execution(BlockNew(id, "ls", 0), 0), 1, 0),
              cancel(start_execution(BlockNew(id, "ls", 0), 0)) } :
            id \in 1..MaxLoadBlocks }

\* the session row of the harness
TheSession == CHOOSE r \in db.sessions : TRUE

LoadOp(op, arg, ret) ==
    /\ lastOp' = [op |-> op, arg |-> arg, ret |-> ret]
    /\ UNCHANGED <<blk, now, app, relay, ch2, saves, ai, execVars>>

\* save_block of a block of the session, at the order of its id
LSaveBlock ==
    \E b \in LoadBlocks :
        /\ db' = [db EXCEPT !.blocks = { r \in @ : r.id # b.id }
                                          \cup {TextRow(1, b, b.id - 1)}]
        /\ LoadOp("save_block", b.id, Ok(<<>>))

\* a state column comes to hold a name that is no BlockState
LForeignState ==
    \E r \in db.blocks :
        /\ r.state \in BlockStates
        /\ db' = [db EXCEPT !.blocks = (@ \ {r}) \cup {[r EXCEPT !.state = "Unknown"]}]
        /\ LoadOp("foreign_state", r.id, Ok(<<>>))

\* a timestamp column of a block row comes to hold malformed text
LMalformedBlockColumn ==
    \E r \in db.blocks :
        /\ \/ /\ r.timestamp.wellformed
              /\ db' = [db EXCEPT !.blocks = (@ \ {r}) \cup {[r EXCEPT !.timestamp = Malformed]}]
           \/ /\ r.started_at # Some(Malformed)
              /\ db' = [db EXCEPT !.blocks = (@ \ {r}) \cup {[r EXCEPT !.started_at = Some(Malformed)]}]
           \/ /\ r.completed_at # Some(Malformed)
              /\ db' = [db EXCEPT !.blocks = (@ \ {r}) \cup {[r EXCEPT !.completed_at = Some(Malformed)]}]
        /\ LoadOp("malformed_timestamp", r.id, Ok(<<>>))

\* a timestamp column of the session row comes to hold malformed text
LMalformedSessionColumn ==
    /\ \/ /\ TheSession.created_at.wellformed
          /\ db' = [db EXCEPT !.sessions = {[TheSession EXCEPT !.created_at = Malformed]}]
       \/ /\ TheSession.updated_at.wellformed
          /\ db' = [db EXCEPT !.sessions = {[TheSession EXCEPT !.updated_at = Malformed]}]
    /\ LoadOp("malformed_timestamp", 0, Ok(<<>>))

\* load_session of the session
LLoadSession ==
    /\ \E rows \in OrderedRows(db, 1) :
         LoadOp("load_session", rows, load_session(TheSession, rows))
    /\ UNCHANGED db

\* create_session has written the session row
LoadInit ==
    /\ ExecInit
    /\ now = 0
    /\ blk = BlockNew(1, "ls", 0)
    /\ app = BlockManagerNew
    /\ relay = [e \in Ids |-> "none"]
    /\ ch2 = [e \in Ids |-> Ch2None]
    /\ db = [ sessions |-> {[id |-> 1, is_active |-> TRUE,
                             created_at |-> to_rfc3339(0), updated_at |-> to_rfc3339(0)]},
              blocks |-> {} ]
    /\ saves = <<>>
    /\ ai = [task |-> "none", q |-> <<>>]
    /\ lastOp = [op |-> "create_session", arg |-> 0, ret |-> Ok(<<>>)]

LoadNext ==
    \/ LSaveBlock \/ LForeignState \/ LMalformedBlockColumn
    \/ LMalformedSessionColumn \/ LLoadSession

(***************************************************************************)
(* SpecProcess: a ProcessHandle next to one execute call.  app holds the   *)
(* handle (status behind its mutex, should_cancel); lastOp the operation   *)
(* just made on it, the handle before it and what it returned.             *)
(***************************************************************************)
\* ProcessStatus
ProcessStatus(t, code) == [t |-> t, code |-> code]

\* the statuses set_status is called with
Statuses ==
    { ProcessStatus("Running", 0), ProcessStatus("Completed", 0),
      ProcessStatus("Failed", 1), ProcessStatus("Killed", 0) }

\* ProcessHandle::new
ProcessHandleNew(command) ==
    [command |-> command, status |-> ProcessStatus("Running", 0), should_cancel |-> FALSE]

\* a cancel that sets the status and leaves the flag alone
ProcessCancel_StatusOnly(h) == [h EXCEPT !.status = ProcessStatus("Killed", 0)]

\* ProcessHandle::cancel
ProcessCancel(h) ==
    [h EXCEPT !.should_cancel = TRUE, !.status = ProcessStatus("Killed", 0)]

\* ProcessHandle::is_running
ProcessIsRunning(h) == h.status.t = "Running"

\* ProcessHandle::get_status
get_status(h) == h.status

\* ProcessHandle::set_status
set_status(h, new_status) == [h EXCEPT !.status = new_status]

HandleOp(op, ret) ==
    /\ lastOp' = [op |-> op, pre |-> app, ret |-> ret]
    /\ UNCHANGED <<blk, now, relay, ch2, db, saves, ai, execVars>>

PCancel ==
    /\ app' = ProcessCancel(app)
    /\ HandleOp("cancel", None)

PSetStatus ==
    \E st \in Statuses :
        /\ app' = set_status(app, st)
        /\ HandleOp("set_status", None)

PRead ==
    /\ app' = app
    /\ \/ HandleOp("is_running", Some(ProcessIsRunning(app)))
       \/ HandleOp("get_status", Some(get_status(app)))

PInit ==
    /\ ExecInit
    /\ now = 0
    /\ blk = BlockNew(1, "ls", 0)
    /\ app = ProcessHandleNew("ls")
    /\ relay = [e \in Ids |-> "none"]
    /\ ch2 = [e \in Ids |-> Ch2None]
    /\ db = [ sessions |-> {}, blocks |-> {} ]
    /\ saves = <<>>
    /\ ai = [task |-> "none", q |-> <<>>]
    /\ lastOp = [op |-> "new", pre |-> app, ret |-> None]

PNext ==
    \/ PCancel \/ PSetStatus \/ PRead
    \/ XExecute \/ XRecv
    \/ (WStartOk(1, ExecScripts) /\ UNCHANGED restVars)
    \/ (WStartFail(1) /\ UNCHANGED restVars)
    \/ (WRead(1) /\ UNCHANGED restVars)
    \/ (WReadWouldBlock(1) /\ UNCHANGED restVars)
    \/ (WReadEof(1) /\ UNCHANGED restVars)
    \/ (WReadErr(1) /\ UNCHANGED restVars)
    \/ (WWait(1) /\ UNCHANGED restVars)
    \/ (WWaitErr(1) /\ UNCHANGED restVars)
    \/ (ChildExit(1) /\ UNCHANGED restVars)

(***************************************************************************)
(* SpecPending: the application with generated commands, their approval    *)
(* widgets, auto-save rounds and session switches.  Commands enter as      *)
(* natural language only, and the tasks of an approved command are spawned *)
(* but not scheduled here.                                                 *)
(***************************************************************************)
MaxPendingIds == 1

PendNext ==
    \/ FrameIdle
    \/ (app.next_id <= MaxPendingIds /\ FrameSubmitNl)
    \/ AiRespond
    \/ (Started = {} /\ FrameApprove)
    \/ FrameReject
    \/ (app.next_id <= MaxPendingIds + 1 /\ FrameRegenerate)
    \/ FrameSave \/ FrameSwitch \/ FrameNewSession
    \/ Tick \/ SaveStep \/ SaveTouch

(***************************************************************************)
(* SpecEvents: the blocks of the manager under the events of executions.   *)
(* app holds the manager and the running-command marker; commands are      *)
(* started, their Output and Exit messages are handled as update handles   *)
(* them, and between the events the user selects, collapses and deletes    *)
(* blocks.  lastOp holds the step just made and the application before it. *)
(***************************************************************************)
MaxEventIds == 2
EventIds == 1..MaxEventIds

EventOp(op, arg) ==
    /\ lastOp' = [op |-> op, pre |-> app, arg |-> arg]
    /\ UNCHANGED <<blk, now, relay, ch2, db, saves, ai, execVars>>

\* execute_shell_command, as far as the manager and the marker go
EExecute ==
    /\ app.next_id \in EventIds
    /\ app' = [app EXCEPT
                 !.blocks = add_block(@, start_execution(BlockNew(app.next_id, "ls", now), now)),
                 !.current_block_id = Some(app.next_id),
                 !.save_needed = TRUE,
                 !.next_id = @ + 1]
    /\ EventOp("start_execution", app.next_id)

\* update handles an Output message of the running command
EOutput ==
    /\ IsSome(app.current_block_id)
    /\ \A i \in 1..Len(app.blocks) : Len(app.blocks[i].output) < MaxOut
    /\ app' = apply_message(app, Output(<<Pc("a", 1)>>), now)
    /\ EventOp("Output", Unwrap(app.current_block_id))

\* update handles the Exit message of the running command
EExit ==
    /\ IsSome(app.current_block_id)
    /\ \E c \in ChildCodes :
         app' = apply_message(app, OutExit(c), now)
    /\ EventOp("Exit", Unwrap(app.current_block_id))

\* a click on a block: select_block
ESelect ==
    \E id \in EventIds :
        /\ has_block(app.blocks, id)
        /\ app' = select_block(app, id)
        /\ EventOp("select_block", id)

\* a double click on a block: toggle_block_collapsed
EToggle ==
    \E id \in EventIds :
        /\ has_block(app.blocks, id)
        /\ app' = toggle_block_collapsed(app, id)
        /\ EventOp("toggle_block_collapsed", id)

\* "Delete Block": remove_block
EDelete ==
    \E id \in EventIds :
        /\ has_block(app.blocks, id)
        /\ app' = [app EXCEPT !.blocks = remove_block(@, id)]
        /\ EventOp("remove_block", id)

EInit ==
    /\ ExecInit
    /\ now = 0
    /\ blk = BlockNew(1, "ls", 0)
    /\ app = [ blocks |-> <<>>, selected_block |-> None, current_block_id |-> None,
               next_id |-> 1, save_needed |-> FALSE ]
    /\ relay = [e \in Ids |-> "none"]
    /\ ch2 = [e \in Ids |-> Ch2None]
    /\ db = [ sessions |-> {}, blocks |-> {} ]
    /\ saves = <<>>
    /\ ai = [task |-> "none", q |-> <<>>]
    /\ lastOp = [op |-> "new", pre |-> app, arg |-> 0]

ENext == EExecute \/ EOutput \/ EExit \/ ESelect \/ EToggle \/ EDelete

(***************************************************************************)
(* SpecRemoval: the application with its sessions, where "Delete Block" on *)
(* the block of the running command is remembered in lastOp                *)
(***************************************************************************)
\* "Delete Block" in the context menu of a block
RDelete ==
    /\ Budget(0)
    /\ LET w == polled(World, now)
       IN  \E i \in 1..Len(w.app.blocks) :
             /\ Len(w.saves) <= MaxSaves
             /\ Commit([w EXCEPT !.app.blocks = remove_block(@, w.app.blocks[i].id)])
             /\ lastOp' = IF w.app.current_block_id = Some(w.app.blocks[i].id)
                          THEN [op |-> "remove_block", pre |-> blk,
                                arg |-> Some(w.app.blocks[i].id)]
                          ELSE lastOp
             /\ UNCHANGED <<execVars, blk, now>>

\* one call of update: a frame
RFrame ==
    \/ FrameIdle
    \/ (SessBudget /\ FrameSubmitShell)
    \/ RDelete \/ FrameSave \/ FrameSwitch \/ FrameNewSession

RNext ==
    \/ RFrame
    \/ Tick \/ SaveStep \/ SaveTouch
    \/ \E e \in Ids :
         \/ RelayStart(e) \/ RelayRecv(e)
         \/ (WStartOk(e, AppScripts) /\ UNCHANGED restVars)
         \/ (WStartFail(e) /\ UNCHANGED restVars)
         \/ (WRead(e) /\ UNCHANGED restVars)
         \/ (WReadWouldBlock(e) /\ UNCHANGED restVars)
         \/ (WReadEof(e) /\ UNCHANGED restVars)
         \/ (WReadErr(e) /\ UNCHANGED restVars)
         \/ (WWait(e) /\ UNCHANGED restVars)
         \/ (WWaitErr(e) /\ UNCHANGED restVars)
         \/ (ChildExit(e) /\ UNCHANGED restVars)

(***************************************************************************)
(* SpecActive: two clones of the SessionManager (one Arc<Database>) whose  *)
(* callers run set_active_session concurrently, statement by statement     *)
(***************************************************************************)
MaxCallers == 2
Callers == 1..MaxCallers

\* "UPDATE sessions SET is_active = 0"
deactivate_all(d) ==
    [d EXCEPT !.sessions = { [r EXCEPT !.is_active = FALSE] : r \in @ }]

\* "UPDATE sessions SET is_active = 1 WHERE id = ?"
activate(d, sid) ==
    [d EXCEPT !.sessions =
        { [r EXCEPT !.is_active = IF r.id = sid THEN TRUE ELSE @] : r \in @ }]

CallerIdle == [pc |-> "idle", sid |-> 0]

\* a task calls set_active_session(sid) on an existing session
ACall(c) ==
    /\ app[c].pc \in {"idle", "returned"}
    /\ \E sid \in Sids :
         /\ session_exists(db, sid)
         /\ app' = [app EXCEPT ![c] = [pc |-> "called", sid |-> sid]]
    /\ UNCHANGED <<db, blk, lastOp, now, relay, ch2, saves, ai, execVars>>

\* the first statement of the call is executed by the pool
ADeactivate(c) ==
    /\ app[c].pc = "called"
    /\ db' = deactivate_all(db)
    /\ app' = [app EXCEPT ![c].pc = "deactivated"]
    /\ UNCHANGED <<blk, lastOp, now, relay, ch2, saves, ai, execVars>>

\* the second statement is executed and the call returns Ok(())
AActivate(c) ==
    /\ app[c].pc = "deactivated"
    /\ db' = activate(db, app[c].sid)
    /\ app' = [app EXCEPT ![c].pc = "returned"]
    /\ UNCHANGED <<blk, lastOp, now, relay, ch2, saves, ai, execVars>>

\* the store after create_session for each session and set_active_session(1)
AInit ==
    /\ ExecInit
    /\ now = 0
    /\ blk = BlockNew(1, "ls", 0)
    /\ lastOp = [op |-> "new", pre |-> blk, arg |-> None]
    /\ app = [c \in Callers |-> CallerIdle]
    /\ relay = [e \in Ids |-> "none"]
    /\ ch2 = [e \in Ids |-> Ch2None]
    /\ db = [ sessions |-> { [id |-> s, is_active |-> (s = 1)] : s \in Sids },
              blocks |-> {} ]
    /\ saves = <<>>
    /\ ai = [task |-> "none", q |-> <<>>]

ANext == \E c \in Callers : ACall(c) \/ ADeactivate(c) \/ AActivate(c)

(***************************************************************************)
(* SpecRounds: the application in one session with up to MaxRounds         *)
(* auto-save tasks in flight at once                                       *)
(***************************************************************************)
MaxRounds == 2

OFrameEnds(w) ==
    /\ Len(w.saves) <= MaxRounds
    /\ Commit(w)
    /\ UNCHANGED <<execVars, blockVars>>

\* a frame without input
OIdle ==
    /\ Budget(0)
    /\ OFrameEnds(polled(World, now))

\* Enter in the command input: execute_command, the input taken as a shell command
OSubmitShell ==
    /\ SessBudget
    /\ Budget(1)
    /\ \E c \in ShellInputs :
         LET w == polled(World, now)
         IN  OFrameEnds(IF IsSome(w.app.current_block_id)
                        THEN w
                        ELSE execute_shell_command(w, c, now))

ONext ==
    \/ OIdle \/ OSubmitShell
    \/ Tick \/ SaveStep \/ SaveTouch
    \/ \E e \in Ids :
         \/ RelayStart(e) \/ RelayRecv(e)
         \/ (WStartOk(e, AppScripts) /\ UNCHANGED restVars)
         \/ (WStartFail(e) /\ UNCHANGED restVars)
         \/ (WRead(e) /\ UNCHANGED restVars)
         \/ (WReadWouldBlock(e) /\ UNCHANGED restVars)
         \/ (WReadEof(e) /\ UNCHANGED restVars)
         \/ (WReadErr(e) /\ UNCHANGED restVars)
         \/ (WWait(e) /\ UNCHANGED restVars)
         \/ (WWaitErr(e) /\ UNCHANGED restVars)
         \/ (ChildExit(e) /\ UNCHANGED restVars)

(***************************************************************************)
(* SpecCancel: one ProcessHandle shared by a thread that calls cancel and  *)
(* threads that report the end of the process with set_status              *)
(***************************************************************************)
MaxSetters == 2
Setters == 1..MaxSetters

\* the statuses a reporting thread sets: Completed(c) or Failed(c)
EndStatuses ==
    { ProcessStatus("Completed", 0), ProcessStatus("Failed", 1), ProcessStatus("Failed", -1) }

\* cancel: should_cancel.store(true, SeqCst)
CStoreFlag ==
    /\ ai.cancel = "called"
    /\ app' = [app EXCEPT !.should_cancel = TRUE]
    /\ ai' = [ai EXCEPT !.cancel = "stored"]
    /\ UNCHANGED <<blk, lastOp, now, relay, ch2, db, saves, execVars>>

\* cancel: the mutex is taken, the status becomes Killed, cancel returns
CSetKilled ==
    /\ ai.cancel = "stored"
    /\ app' = [app EXCEPT !.status = ProcessStatus("Killed", 0)]
    /\ ai' = [ai EXCEPT !.cancel = "returned"]
    /\ UNCHANGED <<blk, lastOp, now, relay, ch2, db, saves, execVars>>

\* a thread calls set_status(st)
CCallSetStatus(s) ==
    /\ ai.setter[s].pc \in {"idle", "returned"}
    /\ \E st \in EndStatuses :
         ai' = [ai EXCEPT !.setter[s] = [pc |-> "called", st |-> st]]
    /\ UNCHANGED <<app, blk, lastOp, now, relay, ch2, db, saves, execVars>>

\* set_status: the mutex is taken, the status is written, the call returns
CSetStatus(s) ==
    /\ ai.setter[s].pc = "called"
    /\ app' = set_status(app, ai.setter[s].st)
    /\ ai' = [ai EXCEPT !.setter[s].pc = "returned"]
    /\ UNCHANGED <<blk, lastOp, now, relay, ch2, db, saves, execVars>>

\* a new handle; one thread has called cancel
CInit ==
    /\ ExecInit
    /\ now = 0
    /\ blk = BlockNew(1, "ls", 0)
    /\ lastOp = [op |-> "new", pre |-> blk, arg |-> None]
    /\ app = ProcessHandleNew("ls")
    /\ relay = [e \in Ids |-> "none"]
    /\ ch2 = [e \in Ids |-> Ch2None]
    /\ db = [ sessions |-> {}, blocks |-> {} ]
    /\ saves = <<>>
    /\ ai = [ cancel |-> "called",
              setter |-> [s \in Setters |-> [pc |-> "idle", st |-> ProcessStatus("Running", 0)]] ]

CNext ==
    \/ CStoreFlag \/ CSetKilled
    \/ \E s \in Setters : CCallSetStatus(s) \/ CSetStatus(s)

BlockInit == BInit /\ ExecInit /\ AppInit

SpecBlock == BlockInit /\ [][BNext]_vars
SpecExec == XInit /\ [][XNext]_vars
Spec == Init /\ [][Next]_vars
FairSpec == Spec /\ Fairness
SpecSession == Init /\ [][SessNext]_vars
SpecStore == Init /\ [][StoreNext]_vars
SpecManager == MInit /\ [][MNext]_vars
SpecDb == DbInit /\ [][DbNext]_vars
SpecCancel == CInit /\ [][CNext]_vars
SpecRounds == Init /\ [][ONext]_vars
SpecActive == AInit /\ [][ANext]_vars
SpecRemoval == Init /\ [][RNext]_vars
SpecEvents == EInit /\ [][ENext]_vars
SpecPending == Init /\ [][PendNext]_vars
SpecProcess == PInit /\ [][PNext]_vars
SpecLoad == LoadInit /\ [][LoadNext]_vars

(***************************************************************************)
(* Claims about Block (SpecBlock)                                          *)
(***************************************************************************)
Finished == {"Completed", "Failed"}

\* C1: in every state of a Block, after any sequence of start_execution,
\* append_output, complete_execution, cancel and reconstruction by load_session,
\* exit_code is Some exactly when the state is Completed or Failed.
C1_ExitCodeIffFinished == IsSome(blk.exit_code) <=> blk.state \in Finished

AllowedTransitions ==
    { <<"Editing", "Running">>, <<"PendingApproval", "Running">>,
      <<"Running", "Completed">>, <<"Running", "Failed">>, <<"Running", "Cancelled">> }

\* C2: every state change of a Block is one of Editing->Running,
\* PendingApproval->Running, Running->Completed, Running->Failed,
\* Running->Cancelled; start_execution changes the block only from Editing or
\* PendingApproval, complete_execution only from Running, and the state of a
\* Completed, Failed or Cancelled block never changes again.
C2_LifecycleTransitions ==
    [][ /\ blk'.state # blk.state => <<blk.state, blk'.state>> \in AllowedTransitions
        /\ (lastOp'.op = "start_execution" /\ blk' # blk)
              => blk.state \in {"Editing", "PendingApproval"}
        /\ (lastOp'.op = "complete_execution" /\ blk' # blk) => blk.state = "Running"
        /\ blk.state \in TerminalStates => blk'.state = blk.state ]_vars

\* C3: complete_execution(c) on a Running block sets exit_code to Some(c) and
\* the state to Completed when c = 0 and to Failed for every other signed c.
C3_CompleteExecution ==
    (lastOp.op = "complete_execution" /\ lastOp.pre.state = "Running") =>
        /\ blk.exit_code = lastOp.arg
        /\ Unwrap(lastOp.arg) = 0 => blk.state = "Completed"
        /\ Unwrap(lastOp.arg) # 0 => blk.state = "Failed"

C3_Witness ==
    /\ lastOp.op = "complete_execution"
    /\ lastOp.pre.state = "Running"
    /\ lastOp.arg = Some(-1)
    /\ blk.state = "Failed"
    /\ blk.exit_code = Some(-1)

(***************************************************************************)
(* Claims about ShellExecutor::execute (SpecExec)                          *)
(***************************************************************************)
ExitsIn(evs) == { i \in 1..Len(evs) : evs[i].t = "Exit" }

\* C5: while the receiver of an execute call stays alive, the stream never
\* carries more than one Exit, nothing follows an Exit, and when the worker has
\* ended (on any path) the stream holds exactly one Exit, as its last event, and
\* the channel is closed; the channel is not closed before the worker ends.
C5_ExactlyOneExitLast ==
    \A e \in Ids :
        ch1[e].rx =>
            /\ Cardinality(ExitsIn(sent1[e])) <= 1
            /\ \A i \in ExitsIn(sent1[e]) : i = Len(sent1[e])
            /\ wk[e].pc = "done" =>
                  /\ Cardinality(ExitsIn(sent1[e])) = 1
                  /\ ~ch1[e].tx
            /\ (wk[e].pc \notin {"idle", "done"}) =>
                  /\ ch1[e].tx
                  /\ ExitsIn(sent1[e]) = {}

C5_Witness ==
    /\ wk[1].pc = "done"
    /\ ch1[1].rx
    /\ Len(sent1[1]) >= 3
    /\ sent1[1][Len(sent1[1])].t = "Exit"

\* C6: an execution whose worker fails to allocate the PTY or to spawn, or
\* whose read fails, ends its stream with Exit(-1), and its worker is never
\* left waiting for the child after a read error.
C6_FailureEndsWithExitMinusOne ==
    /\ [][\A e \in Ids :
            ( /\ ch1[e].rx
              /\ wk[e].pc # "done" /\ wk'[e].pc = "done"
              /\ wk[e].pc = "start" \/ "read" \in wk[e].hit ) =>
                /\ sent1'[e] # <<>>
                /\ sent1'[e][Len(sent1'[e])] = Exit(-1)]_vars
    /\ [](\A e \in Ids :
            (ch1[e].rx /\ "read" \in wk[e].hit) =>
                ~(wk[e].pc = "wait" /\ wk[e].child = "running"))

\* the block with this id is in the BlockManager in one of these states
BlockIn(id, states) ==
    \E i \in 1..Len(app.blocks) : app.blocks[i].id = id /\ app.blocks[i].state \in states

C7_AtMostOneRunning == Len(get_running_blocks(app.blocks)) <= 1

\* C8: every block that is Running in the BlockManager eventually stops
\* being Running there (it has reached a terminal state, or at least has been
\* removed), when the update loop keeps polling, tasks and threads are
\* scheduled and every child exits.
C8_RunningReachesTerminal ==
    \A id \in Ids : BlockIn(id, {"Running"}) ~> ~BlockIn(id, {"Running"})

\* the text of the Stdout/Stderr events among evs, in order
Fragments(evs) ==
    LET outs == SelectSeq(evs, LAMBDA ev : ev.t # "Exit")
    IN  Flatten([k \in 1..Len(outs) |-> outs[k].s])

\* C9: the output of a block that has completed is the concatenation, in the
\* order of emission, of every Stdout/Stderr fragment the worker of its
\* execution sent: none lost, duplicated or reordered.
C9_OutputIsConcatenation ==
    \A i \in 1..Len(app.blocks) :
        (app.blocks[i].state \in Finished /\ sent1[app.blocks[i].id] # <<>>) =>
            app.blocks[i].output = Fragments(sent1[app.blocks[i].id])

\* what C10 compares of a block sequence
Saved(blocks) ==
    [i \in 1..Len(blocks) |->
        [ id |-> blocks[i].id, command |-> blocks[i].command,
          output |-> blocks[i].output, exit_code |-> blocks[i].exit_code ]]

\* C10: right after every block of the in-memory sequence has been saved with
\* order = its index, load_session returns the same blocks (commands, outputs,
\* exit codes) in the same order, in one order only.
C10_SaveLoadRoundTrip ==
    [][lastOp'.op = "save_all" =>
          \A rows \in OrderedRows(db', app'.session_id) :
              Saved(load_blocks(rows)) = Saved(app'.blocks)]_vars

\* C11: at most one persisted session is marked active, and right after
\* set_active_session(X) for an existing session X exactly X is active.
C11_SingleActiveSession ==
    /\ Cardinality(active_sessions(db)) <= 1
    /\ (lastOp.op = "set_active_session" /\ session_exists(lastOp.pre, lastOp.arg)) =>
           active_sessions(db) = {lastOp.arg}

\* C12: create_session leaves the set of sessions marked active as it was.
C12_CreateSessionKeepsActive ==
    lastOp.op = "create_session" =>
        active_sessions(db) = active_sessions(lastOp.pre)

\* C13: right after save_block(session, block, order), saving the same again changes nothing, the store holds the new
\* values under the block's id, and no two rows ever share a block id.
C13_SaveBlockUpsert ==
    /\ \A r1 \in db.blocks : \A r2 \in db.blocks : r1.id = r2.id => r1 = r2
    /\ lastOp.op = "save_block" =>
          LET a == lastOp.arg
          IN  /\ save_block(db, a.sid, a.block, a.order) = db
              /\ { r \in db.blocks : r.id = a.block.id } =
                     {BlockRow(a.sid, a.block, a.order)}
              /\ { r \in db.blocks : r.id # a.block.id } =
                     { r \in lastOp.pre.blocks : r.id # a.block.id }

\* a stored block has just been saved again with other values, under
\* another session and order
C13_Witness ==
    /\ lastOp.op = "save_block"
    /\ \E r \in lastOp.pre.blocks :
          /\ r.id = lastOp.arg.block.id
          /\ r # BlockRow(lastOp.arg.sid, lastOp.arg.block, lastOp.arg.order)
          /\ r.session_id # lastOp.arg.sid
    /\ \E r \in db.blocks : r.id # lastOp.arg.block.id

\* C14: right after delete_session(id) no block of session id is stored, and
\* the rows of every other session, and their blocks, are as before.
C14_DeleteSessionCascades ==
    lastOp.op = "delete_session" =>
        /\ \A r \in db.blocks : r.session_id # lastOp.arg
        /\ { r \in db.sessions : r.id # lastOp.arg } =
               { r \in lastOp.pre.sessions : r.id # lastOp.arg }
        /\ db.blocks = { r \in lastOp.pre.blocks : r.session_id # lastOp.arg }

\* a session with stored blocks has just been deleted while another session
\* with stored blocks exists
C14_Witness ==
    /\ lastOp.op = "delete_session"
    /\ \E r \in lastOp.pre.blocks : r.session_id = lastOp.arg
    /\ \E r \in db.blocks : r.session_id # lastOp.arg
    /\ db.sessions # {}

\* the store holds the block, with its present values, under the current
\* session
PersistedIn(d, a, b) ==
    \E r \in d.blocks :
        [r EXCEPT !.block_order = 0] = BlockRow(a.session_id, b, 0)

Persisted(b) == PersistedIn(db, app, b)

\* a block of the sequence has received output in this step
OutputAppended ==
    \E i \in 1..Len(app.blocks) : \E j \in 1..Len(app'.blocks) :
        /\ app.blocks[i].id = app'.blocks[j].id
        /\ app.blocks[i].output # app'.blocks[j].output

\* C15: a step that appends output to a block leaves save_needed true, and a
\* step takes save_needed from true to false only when the auto-save interval
\* has elapsed and the store then holds every current block.
C15_SaveNeededResetAfterSuccess ==
    [][/\ OutputAppended => app'.save_needed
       /\ (app.save_needed /\ ~app'.save_needed) =>
              /\ app.elapsed
              /\ \A i \in 1..Len(app'.blocks) : PersistedIn(db', app', app'.blocks[i])]_vars

\* the save round saves[k] ends in this step
RoundEnds(k) ==
    /\ k \in 1..Len(saves)
    /\ saves[k].idx > Len(saves[k].blocks)
    /\ saves' = SubSeq(saves, 1, k - 1) \o SubSeq(saves, k + 1, Len(saves))

\* C16: a save round that ends without having persisted one of its blocks is
\* due again: when the round was for the current session and the block is
\* still in the sequence, save_needed is true as the round ends, so that the
\* next elapsed interval starts another round with no new block mutation.
C16_FailedSaveIsRetried ==
    [][\A k \in 1..Len(saves) : RoundEnds(k) =>
          \A i \in 1..Len(saves[k].blocks) :
              (/\ saves[k].sid = app'.session_id
               /\ has_block(app'.blocks, saves[k].blocks[i].id)
               /\ BlockRow(saves[k].sid, saves[k].blocks[i], i - 1) \notin db'.blocks)
                  => app'.save_needed]_vars

\* the blocks of the manager held in app that report is_selected
SelectedIds == { app.blocks[i].id : i \in { j \in 1..Len(app.blocks) : app.blocks[j].is_selected } }

ByIdOps ==
    { "get_block", "remove_block", "select_block", "toggle_block_collapsed",
      "copy_block_command", "copy_block_output", "copy_block_full",
      "duplicate_block_for_edit" }

\* C18: a by-ID operation called with an id that is not in the sequence
\* returns None and leaves the manager as it was: the sequence, every field
\* of every block, the selected reference.
C18_MissingIdIsNoOp ==
    (lastOp.op \in ByIdOps /\ ~has_block(lastOp.pre.blocks, lastOp.arg)) =>
        /\ lastOp.ret = None
        /\ app = lastOp.pre

\* C19: a selected reference that is set is the id of a block of the sequence.
C19_SelectedReferenceInSequence ==
    IsSome(app.selected_block) => has_block(app.blocks, Unwrap(app.selected_block))

\* C20: a block with started_at and completed_at both set has started_at no
\* later than completed_at and a duration that is set, is not negative and
\* equals completed_at - started_at.
C20_DurationIsElapsedTime ==
    (IsSome(blk.started_at) /\ IsSome(blk.completed_at)) =>
        /\ Unwrap(blk.started_at) <= Unwrap(blk.completed_at)
        /\ IsSome(blk.duration)
        /\ Unwrap(blk.duration) >= 0
        /\ Unwrap(blk.duration) = Unwrap(blk.completed_at) - Unwrap(blk.started_at)

\* C21: cancel() on a Running block sets the state to Cancelled and leaves
\* exit_code unset, and the complete_execution that the Exit event of the
\* process brings afterwards changes neither the state nor the exit_code of
\* the Cancelled block.
C21_CancelledStaysCancelled ==
    [][ /\ (lastOp'.op = "cancel" /\ blk.state = "Running" /\ blk.exit_code = None)
              => (blk'.state = "Cancelled" /\ blk'.exit_code = None)
        /\ (lastOp'.op = "complete_execution" /\ blk.state = "Cancelled" /\ blk.exit_code = None)
              => (blk'.state = "Cancelled" /\ blk'.exit_code = None) ]_vars

\* the rows load_session has just read, when it is the call just made
LoadedRows == IF lastOp.op = "load_session" THEN lastOp.arg ELSE <<>>

\* no timestamp column read by the load is malformed
TimestampsWellFormed ==
    /\ TheSession.created_at.wellformed
    /\ TheSession.updated_at.wellformed
    /\ \A i \in 1..Len(LoadedRows) :
          /\ LoadedRows[i].timestamp.wellformed
          /\ LoadedRows[i].started_at # Some(Malformed)
          /\ LoadedRows[i].completed_at # Some(Malformed)

\* C22: a load_session over rows with well-formed timestamps returns the
\* session with a block for every row, whatever the state strings are: a row
\* holding the name of a BlockState as save_block writes it loads in that
\* state, any other string in some BlockState.
C22_StateStringsLoad ==
    (lastOp.op = "load_session" /\ TimestampsWellFormed) =>
        /\ lastOp.ret.ok
        /\ Len(lastOp.ret.v.blocks) = Len(LoadedRows)
        /\ \A i \in 1..Len(LoadedRows) :
              /\ lastOp.ret.v.blocks[i].state \in BlockStates
              /\ \A st \in BlockStates :
                    LoadedRows[i].state = StateString(st) =>
                        lastOp.ret.v.blocks[i].state = st

\* C23: load_session returns the session with a block for every row whatever
\* the timestamp columns of the session row and of the block rows hold.
C23_MalformedTimestampsLoad ==
    lastOp.op = "load_session" =>
        /\ lastOp.ret.ok
        /\ Len(lastOp.ret.v.blocks) = Len(LoadedRows)

\* the execution of block e ended in a PTY allocation or spawn failure
StartFailed(e) == wk[e].pc = "done" /\ "start" \in wk[e].hit

\* C24: once the block of a command whose PTY allocation or spawn failed is
\* no longer Running, it is Failed with exit_code Some(-1), its output holds an
\* error message, and it no longer is the running command, so that the next
\* command is accepted.
C24_StartFailureConfined ==
    \A e \in Ids :
        (StartFailed(e) /\ has_block(app.blocks, e)
            /\ get_block(app.blocks, e).state # "Running") =>
               /\ get_block(app.blocks, e).state = "Failed"
               /\ get_block(app.blocks, e).exit_code = Some(-1)
               /\ get_block(app.blocks, e).output # <<>>
               /\ app.current_block_id # Some(e)

\* C25: a new ProcessHandle is Running with the flag clear; right after
\* cancel() the flag is set and the status is Killed; no operation clears the
\* flag; an operation on the handle leaves the worker and its channel as they
\* were, and the stream of a cancelled handle's execution still ends with
\* the Exit event once the worker has ended.
C25_CancelSetsFlagOnly ==
    /\ [](/\ lastOp.op = "new" =>
               (app.status = ProcessStatus("Running", 0) /\ ~app.should_cancel)
          /\ lastOp.op = "cancel" =>
               (app.should_cancel /\ app.status = ProcessStatus("Killed", 0))
          /\ lastOp.pre.should_cancel => app.should_cancel
          /\ (app.should_cancel /\ wk[1].pc = "done") =>
               (sent1[1] # <<>> /\ sent1[1][Len(sent1[1])].t = "Exit"))
    /\ [][lastOp' # lastOp => UNCHANGED execVars]_vars

\* the handle was cancelled while the worker was in its read loop, another
\* status was set afterwards, and the stream has ended with output and Exit
C25_Witness ==
    /\ app.should_cancel
    /\ app.status # ProcessStatus("Killed", 0)
    /\ wk[1].pc = "done"
    /\ Len(sent1[1]) >= 2
    /\ sent1[1][Len(sent1[1])].t = "Exit"

\* the blocks of the manager that hold a generated command
GeneratedBlocks ==
    { i \in 1..Len(app.blocks) : app.blocks[i].command \in AiCommands }

\* C26: a generated command is a PendingApproval block until an approve
\* action: the executor is handed a generated command only in an approve
\* step, a reject or edit step starts no execution and removes a pending
\* block, and a block holding a generated command is never Completed, Failed
\* or Cancelled without having been started.
C26_PendingApprovalGate ==
    /\ [](\A i \in GeneratedBlocks :
             /\ app.blocks[i].state \in {"PendingApproval", "Running"} \cup TerminalStates
             /\ app.blocks[i].state \in TerminalStates => IsSome(app.blocks[i].started_at))
    /\ [][ /\ (\E e \in Ids :
                  /\ relay[e] = "none" /\ relay'[e] # "none"
                  /\ has_block(app'.blocks, e)
                  /\ get_block(app'.blocks, e).command \in AiCommands) => FrameApprove
           /\ FrameReject => relay' = relay ]_vars

\* the block as it was before the step just made, identity and
\* presentation fields only
Presentation(b) ==
    [id |-> b.id, command |-> b.command, is_collapsed |-> b.is_collapsed,
     is_selected |-> b.is_selected]

\* C27: handling an Output or Exit message keeps the sequence of blocks,
\* changes no block other than the one the message is for, and leaves that
\* block's id, command, is_collapsed and is_selected as they were; starting a
\* command appends its Running block and changes no block already there.
C27_ExecutionKeepsPresentation ==
    /\ lastOp.op \in {"Output", "Exit"} =>
          /\ Len(app.blocks) = Len(lastOp.pre.blocks)
          /\ app.selected_block = lastOp.pre.selected_block
          /\ \A i \in 1..Len(app.blocks) :
                /\ Presentation(app.blocks[i]) = Presentation(lastOp.pre.blocks[i])
                /\ app.blocks[i].id # lastOp.arg => app.blocks[i] = lastOp.pre.blocks[i]
    /\ lastOp.op = "start_execution" =>
          /\ SubSeq(app.blocks, 1, Len(lastOp.pre.blocks)) = lastOp.pre.blocks
          /\ Len(app.blocks) = Len(lastOp.pre.blocks) + 1
          /\ Presentation(app.blocks[Len(app.blocks)]) =
                Presentation(BlockNew(lastOp.arg, "ls", 0))
          /\ app.selected_block = lastOp.pre.selected_block

\* the Exit of the running command has just been handled while that block
\* was collapsed and selected and an older, collapsed block stood before it
C27_Witness ==
    /\ lastOp.op = "Exit"
    /\ Len(app.blocks) = 2
    /\ app.blocks[2].id = lastOp.arg
    /\ app.blocks[2].is_collapsed /\ app.blocks[2].is_selected
    /\ app.blocks[2].state \in Finished
    /\ app.blocks[2].output # <<>>
    /\ lastOp.pre.blocks[2].state = "Running"
    /\ app.blocks[1].is_collapsed

\* what is left of a buffer after its complete lines: the bytes behind the
\* last newline
Remainder(buf) ==
    LET nls == { i \in 1..Len(buf) : buf[i] = NL }
        last == IF nls = {} THEN 0 ELSE CHOOSE i \in nls : \A j \in nls : j <= i
    IN  SubSeq(buf, last + 1, Len(buf))

\* C28: when a read leaves, behind the complete lines, a remainder of more
\* than 4096 bytes, the worker emits the remainder as a Stdout fragment and
\* empties the buffer; the buffer holds at most 4096 bytes whenever a read
\* starts.
C28_LargeRemainderIsFlushed ==
    /\ [](\A e \in Ids : wk[e].pc = "read" => ByteLen(wk[e].buffer) <= Threshold)
    /\ [][\A e \in Ids :
            ( /\ wk[e].pc = "read" /\ wk'[e].pc = "read"
              /\ wk[e].pty # <<>> /\ wk'[e].pty = Tail(wk[e].pty)
              /\ ch1[e].rx
              /\ ByteLen(Remainder(wk[e].buffer \o Head(wk[e].pty))) > Threshold ) =>
                /\ wk'[e].buffer = <<>>
                /\ sent1'[e] # sent1[e]
                /\ sent1'[e][Len(sent1'[e])] =
                       Stdout(Remainder(wk[e].buffer \o Head(wk[e].pty)))]_vars

\* the bytes a step of the read loop takes from the PTY master
BytesRead(e) == IF wk'[e].pty # wk[e].pty THEN Head(wk[e].pty) ELSE <<>>

\* C29: no output is discarded by the executor.  While the receiver lives,
\* every step of the read loop keeps (fragments emitted so far, then the bytes
\* buffered) equal to the bytes read so far, so that once the loop is left with
\* an empty buffer the concatenation of the Stdout fragments is the sequence of
\* bytes read; a newline occurs in a fragment only as its last byte.
C29_NoOutputDiscarded ==
    /\ [](\A e \in Ids : \A k \in 1..Len(sent1[e]) :
            sent1[e][k].t = "Stdout" =>
                \A i \in 1..(Len(sent1[e][k].s) - 1) : sent1[e][k].s[i] # NL)
    /\ [][\A e \in Ids :
            (wk[e].pc = "read" /\ ch1[e].rx /\ ch1'[e].rx) =>
                /\ Fragments(sent1'[e]) \o wk'[e].buffer =
                       Fragments(sent1[e]) \o wk[e].buffer \o BytesRead(e)
                /\ wk'[e].pc # "read" => wk'[e].buffer = <<>>]_vars

\* "Delete Block" removed the block of the running command, and the Exit of
\* that command has not been polled since
RemovedRunning ==
    /\ lastOp.op = "remove_block"
    /\ app.current_block_id = lastOp.arg

\* the Exit event of the running command waits in the output channel
ExitQueued ==
    /\ IsSome(app.output_receiver)
    /\ \E i \in 1..Len(ch2[Unwrap(app.output_receiver)].q) :
         ch2[Unwrap(app.output_receiver)].q[i].t = "Exit"

\* C30: once the running block has been removed from the manager, the frames
\* that poll its Output and Exit events leave every block of the manager as it
\* was; the frame that polls the Exit clears current_block_id and drops the
\* receiver; and a command submitted in that frame is executed.
C30_EventsAfterRemoval ==
    [][RemovedRunning =>
         /\ \A i \in 1..Len(app'.blocks) :
              has_block(app.blocks, app'.blocks[i].id) =>
                  app'.blocks[i] = get_block(app.blocks, app'.blocks[i].id)
         /\ (ExitQueued /\ RFrame) =>
              /\ ~ch2'[Unwrap(app.output_receiver)].rx
              /\ app'.current_block_id # app.current_block_id
              /\ app'.output_receiver # app.output_receiver
         /\ (ExitQueued /\ SessBudget /\ FrameSubmitShell) =>
              \E i \in 1..Len(app'.blocks) :
                  /\ ~has_block(app.blocks, app'.blocks[i].id)
                  /\ app'.blocks[i].state = "Running"
                  /\ app'.current_block_id = Some(app'.blocks[i].id)
                  /\ app'.output_receiver = Some(app'.blocks[i].id)
                  /\ relay'[app'.blocks[i].id] = "start"]_vars

(***************************************************************************)
(* Claims about concurrent use of the store and the handle                 *)
(***************************************************************************)
\* C31: whenever two concurrent calls of set_active_session on existing
\* sessions have both returned, exactly one session is marked active.
C31_ConcurrentSetActive ==
    (\A c \in Callers : app[c].pc = "returned") =>
        Cardinality(active_sessions(db)) = 1

\* the save round saves[k] has written all its blocks
RoundWritten(k) == saves[k].idx > Len(saves[k].blocks)

\* C32: when two auto-save rounds of one session overlap and both have
\* written all their blocks, every block of the later snapshot is in the store
\* with the values of the later snapshot.
C32_LaterSnapshotWins ==
    \A k1, k2 \in 1..Len(saves) :
        (/\ k1 < k2
         /\ saves[k1].sid = saves[k2].sid
         /\ RoundWritten(k1) /\ RoundWritten(k2)) =>
            \A i \in 1..Len(saves[k2].blocks) :
                BlockRow(saves[k2].sid, saves[k2].blocks[i], i - 1) \in db.blocks

\* the ids of a block sequence, in order
IdsOf(blocks) == [i \in 1..Len(blocks) |-> blocks[i].id]

\* C33: when a block has been removed from the in-memory sequence and the
\* next auto-save round has written every block of the sequence, load_session
\* returns exactly the blocks of the sequence in the same order, and no two
\* rows of the session carry the same block_order.
C33_RemovedBlockNotLoaded ==
    [][(lastOp.op = "remove_block" /\ lastOp'.op = "save_all") =>
          /\ \A rows \in OrderedRows(db', app'.session_id) :
                IdsOf(load_blocks(rows)) = IdsOf(app'.blocks)
          /\ \A r1, r2 \in db'.blocks :
                (r1.session_id = r2.session_id /\ r1.block_order = r2.block_order) =>
                    r1 = r2]_vars

\* C34: a block saved by save_block comes back from load_session in the state
\* it was saved in, for each of Editing, PendingApproval, Running, Completed,
\* Failed and Cancelled.
C34_StateRoundTrip ==
    (lastOp.op = "load_session" /\ lastOp.ret.ok) =>
        \A i \in 1..Len(LoadedRows) : \A b \in LoadBlocks :
            LoadedRows[i] = TextRow(1, b, b.id - 1) =>
                lastOp.ret.v.blocks[i].state = b.state

\* the block is in the store or in the snapshot of a save round of session sid
SavedOrHanded(d, rounds, sid, id) ==
    \/ \E r \in d.blocks : r.id = id /\ r.session_id = sid
    \/ \E k \in 1..Len(rounds) :
         /\ rounds[k].sid = sid
         /\ \E j \in 1..Len(rounds[k].blocks) : rounds[k].blocks[j].id = id

\* C35: when the shown session is replaced, every block of the previous
\* session is in the store or has been handed to a save round under the
\* previous session's id, and a round dispatched by the switch carries the
\* previous session's id.
C35_SwitchPersistsFirst ==
    [][app'.session_id # app.session_id =>
          /\ \A i \in 1..Len(app.blocks) :
                SavedOrHanded(db', saves', app.session_id, app.blocks[i].id)
          /\ Len(saves') > Len(saves) =>
                saves'[Len(saves')].sid = app.session_id]_vars

\* C36: get_selected_block returns a block of the sequence exactly when that
\* block has is_selected set, after any sequence of manager calls.
C36_SelectedAgreesWithFlags ==
    \A i \in 1..Len(app.blocks) :
        (get_selected_block(app) = Some(app.blocks[i])) <=> app.blocks[i].is_selected

\* the blocks "Export as ..." writes: ExportedSession::new(self.session.clone())
ExportedBlocks(a) == a.session_blocks

\* C37: the blocks an export of the session includes are the blocks of the
\* BlockManager, in the same order.
C37_ExportMatchesManager ==
    ExportedBlocks(app) = app.blocks

\* C38: what a block holds comes from its own execution: its output is a
\* prefix of the concatenated fragments the worker of its own command has
\* sent, and its exit code is the code of an Exit that worker has sent.
C38_EventsReachOwnBlock ==
    \A i \in 1..Len(app.blocks) :
        LET b == app.blocks[i]
        IN  /\ IsPrefix(b.output, Fragments(sent1[b.id]))
            /\ IsSome(b.exit_code) =>
                  \E k \in 1..Len(sent1[b.id]) :
                      sent1[b.id][k] = Exit(Unwrap(b.exit_code))

\* two commands have run to their end in one manager, one of them an approved
\* generated command, each block holding output and an exit code
C38_Witness ==
    \E i, j \in 1..Len(app.blocks) :
        /\ i # j
        /\ app.blocks[i].output # <<>> /\ IsSome(app.blocks[i].exit_code)
        /\ app.blocks[j].output # <<>> /\ IsSome(app.blocks[j].exit_code)
        /\ app.blocks[i].command \in ShellInputs
        /\ app.blocks[j].command \in AiCommands

\* C39: once cancel() has returned, the status of the handle is Killed and
\* is_running() is false, whatever set_status(Completed(c)) and
\* set_status(Failed(c)) calls of other threads interleave with it.
C39_CancelIsSticky ==
    ai.cancel = "returned" =>
        /\ get_status(app) = ProcessStatus("Killed", 0)
        /\ ~ProcessIsRunning(app)
====
